---------------------------- MODULE Spec2Model ----------------------------
(***************************************************************************)
(* A model of the Code Structure & Relevance Engine of chatgit:            *)
(*   - CodePageRankAnalyzer (pagerank_analyzer.py): the two-pass Graph     *)
(*     Builder and the Relevance Ranker;                                   *)
(*   - FunctionDependencyAnalyzer (chatgit/core/graph/dependency.py);      *)
(*   - ImprovedCodeSnippetExtractor (snippet_extractor.py): the Fragment   *)
(*     Locator.                                                            *)
(* Python strings are TLA+ strings (Len, SubSeq and \o act on them as on   *)
(* sequences of one-character strings).  A Python file is its syntax tree  *)
(* in ast.walk order; a non-Python file is its token sequence, the text    *)
(* being the tokens joined by single spaces.                               *)
(***************************************************************************)
EXTENDS Integers, Sequences, FiniteSets, TLC

VARIABLES
    repo,       \* the repository on disk: the files in rglob order
    pc,         \* position of the running operation
    idx,        \* index in repo of the next file the running pass visits
    analyzer,   \* the CodePageRankAnalyzer instance (self)
    dep,        \* the FunctionDependencyAnalyzer instance (self)
    extractor,  \* the ImprovedCodeSnippetExtractor instance (self)
    query,      \* the last read-side query and its argument
    result      \* what that query returned

vars == <<repo, pc, idx, analyzer, dep, extractor, query, result>>

-----------------------------------------------------------------------------
(* Bounds of the model. *)

\* Largest number of files in a repository.
MaxFiles == 3

\* Largest number of times one file repeats the definition of a name.
MaxDup == 3

\* Largest top_n a ranking is asked for.
MaxTopN == 2

-----------------------------------------------------------------------------
(* Python's str and pathlib operations. *)

None == "<None>"

Char(s, i) == SubSeq(s, i, i)

\* s.startswith(p)
StartsWith(s, p) == Len(s) >= Len(p) /\ SubSeq(s, 1, Len(p)) = p

\* s.endswith(p)
EndsWith(s, p) == Len(s) >= Len(p) /\ SubSeq(s, Len(s) - Len(p) + 1, Len(s)) = p

\* sub in s
Contains(s, sub) ==
    \E i \in 1..(Len(s) - Len(sub) + 1) : SubSeq(s, i, i + Len(sub) - 1) = sub

\* s.find(sub) as a 1-based index, 0 when sub does not occur
Find(s, sub) ==
    LET hits == {i \in 1..(Len(s) - Len(sub) + 1) : SubSeq(s, i, i + Len(sub) - 1) = sub}
    IN  IF hits = {} THEN 0 ELSE CHOOSE i \in hits : \A j \in hits : i <= j

\* s.rfind(sub) as a 1-based index, 0 when sub does not occur
RFind(s, sub) ==
    LET hits == {i \in 1..(Len(s) - Len(sub) + 1) : SubSeq(s, i, i + Len(sub) - 1) = sub}
    IN  IF hits = {} THEN 0 ELSE CHOOSE i \in hits : \A j \in hits : i >= j

\* s.split(sep)[0]
SplitFirst(s, sep) ==
    LET i == Find(s, sep) IN IF i = 0 THEN s ELSE SubSeq(s, 1, i - 1)

\* s.replace(old, new) for a one-character old
RECURSIVE ReplaceChar(_, _, _)
ReplaceChar(s, old, new) ==
    IF s = "" THEN ""
    ELSE (IF Head(s) = old THEN new ELSE Head(s)) \o ReplaceChar(Tail(s), old, new)

UpperToLower ==
    [c \in {"A", "B", "C", "D", "E", "F", "G", "H", "I", "J", "K", "L", "M", "N",
            "O", "P", "Q", "R", "S", "T", "U", "V", "W", "X", "Y", "Z"} |->
        CASE c = "A" -> "a" [] c = "B" -> "b" [] c = "C" -> "c" [] c = "D" -> "d"
          [] c = "E" -> "e" [] c = "F" -> "f" [] c = "G" -> "g" [] c = "H" -> "h"
          [] c = "I" -> "i" [] c = "J" -> "j" [] c = "K" -> "k" [] c = "L" -> "l"
          [] c = "M" -> "m" [] c = "N" -> "n" [] c = "O" -> "o" [] c = "P" -> "p"
          [] c = "Q" -> "q" [] c = "R" -> "r" [] c = "S" -> "s" [] c = "T" -> "t"
          [] c = "U" -> "u" [] c = "V" -> "v" [] c = "W" -> "w" [] c = "X" -> "x"
          [] c = "Y" -> "y" [] c = "Z" -> "z"]

\* s.lower()
RECURSIVE Lower(_)
Lower(s) ==
    IF s = "" THEN ""
    ELSE (IF Head(s) \in DOMAIN UpperToLower THEN UpperToLower[Head(s)] ELSE Head(s))
         \o Lower(Tail(s))

\* Path(p).name: the final component
PathName(p) == SubSeq(p, RFind(p, "/") + 1, Len(p))

\* Path(p).suffix: the final component's last dot and what follows it
PathSuffix(p) ==
    LET name == PathName(p)
        i    == RFind(name, ".")
    IN  IF 1 < i /\ i < Len(name) THEN SubSeq(name, i, Len(name)) ELSE ""

\* str(Path(p).parent) for a relative path
PathParent(p) ==
    LET i == RFind(p, "/") IN IF i = 0 THEN "." ELSE SubSeq(p, 1, i - 1)

\* f"{relative_path}::{name}"
QualifiedName(relative_path, name) == relative_path \o "::" \o name

\* The members of a sequence.
Range(s) == {s[i] : i \in 1..Len(s)}

\* A local variable: F of the value of v, v being worked out once.
Bind(v, F(_)) == CHOOSE r \in {F(x) : x \in {v}} : TRUE

\* A list built by a comprehension, as a list.
List(f) == SubSeq(f, 1, Len(f))

\* A dict built by a comprehension, as a dict.
Dict(f) == f @@ <<>>

-----------------------------------------------------------------------------
(* networkx.DiGraph as the analyzers use it: the nodes and the edges in    *)
(* insertion order, and the weight attribute of the edges that carry one   *)
(* (in tenths: 3 is weight=0.3).                                           *)

EmptyGraph == [nodes |-> <<>>, edges |-> <<>>, weight |-> [e \in {} |-> 0]]

\* G.add_node(n)
AddNode(G, n) ==
    IF n \in Range(G.nodes) THEN G ELSE [G EXCEPT !.nodes = Append(@, n)]

\* G.add_edge(u, v): the endpoints become nodes, an existing edge is kept
AddEdge(G, u, v) ==
    LET G2 == AddNode(AddNode(G, u), v)
    IN  IF <<u, v>> \in Range(G2.edges) THEN G2
        ELSE [G2 EXCEPT !.edges = Append(@, <<u, v>>)]

\* G.add_edge(u, v, weight=w)
AddWeightedEdge(G, u, v, w) ==
    LET G2 == AddEdge(G, u, v)
    IN  [G2 EXCEPT !.weight =
            [e \in (DOMAIN G2.weight) \cup {<<u, v>>} |->
                IF e = <<u, v>> THEN w ELSE G2.weight[e]]]

\* list(G.successors(n)), list(G.predecessors(n))
RECURSIVE Successors(_, _)
Successors(edges, n) ==
    IF edges = <<>> THEN <<>>
    ELSE (IF Head(edges)[1] = n THEN <<Head(edges)[2]>> ELSE <<>>)
         \o Successors(Tail(edges), n)

RECURSIVE Predecessors(_, _)
Predecessors(edges, n) ==
    IF edges = <<>> THEN <<>>
    ELSE (IF Head(edges)[2] = n THEN <<Head(edges)[1]>> ELSE <<>>)
         \o Predecessors(Tail(edges), n)

-----------------------------------------------------------------------------
(* Source files.  A Python file parses to the nodes of its syntax tree in  *)
(* ast.walk order, or fails to parse; a call inside a function body is     *)
(* kept with the kind of its callee expression (ast.Name, ast.Attribute).  *)
(* Each node of a tree stands on a line of its own: the k-th node has      *)
(* lineno k and the file has as many lines as nodes.                       *)

FunctionDef(name, calls) ==
    [type |-> "FunctionDef", name |-> name, names |-> <<>>, calls |-> calls]

AsyncFunctionDef(name, calls) ==
    [type |-> "AsyncFunctionDef", name |-> name, names |-> <<>>, calls |-> calls]

ClassDef(name) ==
    [type |-> "ClassDef", name |-> name, names |-> <<>>, calls |-> <<>>]

\* import n1, n2, ...
Import(names) ==
    [type |-> "Import", name |-> None, names |-> names, calls |-> <<>>]

\* from module import n1, n2, ...; module is None for "from . import x"
ImportFrom(module, names) ==
    [type |-> "ImportFrom", name |-> module, names |-> names, calls |-> <<>>]

\* f(...)
CallName(id) == [kind |-> "Name", id |-> id]

\* obj.f(...)
CallAttribute(id) == [kind |-> "Attribute", id |-> id]

PythonFile(path, tree) ==
    [path |-> path, parses |-> TRUE, tokens |-> <<>>, lines |-> Len(tree),
     tree |-> [k \in 1..Len(tree) |-> tree[k] @@ [lineno |-> k]]]

\* a Python file ast.parse raises SyntaxError on
BrokenPythonFile(path) ==
    [path |-> path, parses |-> FALSE, tree |-> <<>>, tokens |-> <<>>, lines |-> 1]

\* a file of another language: one line of text
GenericFile(path, tokens) ==
    [path |-> path, parses |-> TRUE, tree |-> <<>>, tokens |-> tokens, lines |-> 1]

-----------------------------------------------------------------------------
(* CodePageRankAnalyzer. *)

\* CodePageRankAnalyzer.__init__
NewAnalyzer ==
    [file_graph            |-> EmptyGraph,
     function_graph        |-> EmptyGraph,
     import_graph          |-> EmptyGraph,
     function_name_to_full |-> [n \in {} |-> <<>>]]

\* IndexAppend with the append forgotten.
IndexAppendLost(index, name, full) == index

\* self.function_name_to_full[name].append(full) on the defaultdict(list)
IndexAppend(index, name, full) ==
    [n \in (DOMAIN index) \cup {name} |->
        IF n = name
        THEN (IF n \in DOMAIN index THEN Append(index[n], full) ELSE <<full>>)
        ELSE index[n]]

\* The weight of an ambiguous call's edges, in tenths (weight=0.3).
LowConfidenceWeight == 3

\* The number of candidates an ambiguous call is linked to (candidates[:3]).
TopCandidates == 3

supported_exts ==
    {".py", ".js", ".jsx", ".ts", ".tsx", ".java", ".swift",
     ".c", ".cpp", ".cc", ".cxx", ".h", ".hpp"}

skip_dirs == {"venv", "__pycache__", ".git", "node_modules"}

\* The root the repository is checked out at.
repo_path == "/srv/repo"

\* any(skip in str(file_path) for skip in [...])
IsSkipped(relative_path) ==
    \E skip \in skip_dirs : Contains(repo_path \o "/" \o relative_path, skip)

\* file_path.suffix.lower()
Ext(relative_path) == Lower(PathSuffix(relative_path))

\* The files a pass visits: not skipped, with a supported extension.
IsEligible(relative_path) ==
    ~IsSkipped(relative_path) /\ Ext(relative_path) \in supported_exts

\* CodePageRankAnalyzer._collect_python_functions: Pass 1 on a Python file
RECURSIVE CollectTree(_, _, _)
CollectTree(self, relative_path, tree) ==
    IF tree = <<>> THEN self
    ELSE LET node == Head(tree)
             func_full_name == QualifiedName(relative_path, node.name)
             next == IF node.type = "FunctionDef"
                     THEN [self EXCEPT
                             !.function_graph = AddNode(@, func_full_name),
                             !.function_name_to_full =
                                 IndexAppend(@, node.name, func_full_name)]
                     ELSE self
         IN  CollectTree(next, relative_path, Tail(tree))

\* collect_python_functions that collects nothing.
CollectPythonFunctionsNothing(self, file) == self

collect_python_functions(self, file) ==
    IF file.parses THEN CollectTree(self, file.path, file.tree) ELSE self

\* CodePageRankAnalyzer._add_function_call_edge, its last loop
RECURSIVE AddLowConfidenceEdges(_, _, _)
AddLowConfidenceEdges(G, caller_full_name, candidates) ==
    IF candidates = <<>> THEN G
    ELSE AddLowConfidenceEdges(
             AddWeightedEdge(G, caller_full_name, Head(candidates), LowConfidenceWeight),
             caller_full_name, Tail(candidates))

\* add_function_call_edge that keeps a call of an unknown name as an edge to
\* the bare name.
AddFunctionCallEdgeKeepsUnknown(self, caller_full_name, called_func_name, current_file) ==
    LET same_file_target == QualifiedName(current_file, called_func_name)
        G == self.function_graph
    IN  IF same_file_target \in Range(G.nodes)
        THEN [self EXCEPT !.function_graph = AddEdge(G, caller_full_name, same_file_target)]
        ELSE IF called_func_name \in DOMAIN self.function_name_to_full
        THEN LET candidates == self.function_name_to_full[called_func_name]
                 caller_dir == PathParent(current_file)
                 nearby == {i \in 1..Len(candidates) :
                              PathParent(SplitFirst(candidates[i], "::")) = caller_dir}
             IN  IF Len(candidates) = 1
                 THEN [self EXCEPT !.function_graph =
                          AddEdge(G, caller_full_name, candidates[1])]
                 ELSE IF nearby # {}
                 THEN [self EXCEPT !.function_graph =
                          AddEdge(G, caller_full_name,
                                  candidates[CHOOSE i \in nearby : \A j \in nearby : i <= j])]
                 ELSE [self EXCEPT !.function_graph =
                          AddLowConfidenceEdges(G, caller_full_name,
                              SubSeq(candidates, 1,
                                     IF Len(candidates) < TopCandidates
                                     THEN Len(candidates) ELSE TopCandidates))]
        ELSE [self EXCEPT !.function_graph = AddEdge(G, caller_full_name, called_func_name)]

\* add_function_call_edge without its look at the caller's directory.
AddFunctionCallEdgeAnyDirectory(self, caller_full_name, called_func_name, current_file) ==
    LET same_file_target == QualifiedName(current_file, called_func_name)
        G == self.function_graph
    IN  IF same_file_target \in Range(G.nodes)
        THEN [self EXCEPT !.function_graph = AddEdge(G, caller_full_name, same_file_target)]
        ELSE IF called_func_name \in DOMAIN self.function_name_to_full
        THEN LET candidates == self.function_name_to_full[called_func_name]
             IN  IF Len(candidates) = 1
                 THEN [self EXCEPT !.function_graph =
                          AddEdge(G, caller_full_name, candidates[1])]
                 ELSE [self EXCEPT !.function_graph =
                          AddLowConfidenceEdges(G, caller_full_name,
                              SubSeq(candidates, 1,
                                     IF Len(candidates) < TopCandidates
                                     THEN Len(candidates) ELSE TopCandidates))]
        ELSE self

\* CodePageRankAnalyzer._add_function_call_edge
add_function_call_edge(self, caller_full_name, called_func_name, current_file) ==
    LET same_file_target == QualifiedName(current_file, called_func_name)
        G == self.function_graph
    IN  IF same_file_target \in Range(G.nodes)
        THEN [self EXCEPT !.function_graph = AddEdge(G, caller_full_name, same_file_target)]
        ELSE IF called_func_name \in DOMAIN self.function_name_to_full
        THEN LET candidates == self.function_name_to_full[called_func_name]
                 caller_dir == PathParent(current_file)
                 nearby == {i \in 1..Len(candidates) :
                              PathParent(SplitFirst(candidates[i], "::")) = caller_dir}
             IN  IF Len(candidates) = 1
                 THEN [self EXCEPT !.function_graph =
                          AddEdge(G, caller_full_name, candidates[1])]
                 ELSE IF nearby # {}
                 THEN [self EXCEPT !.function_graph =
                          AddEdge(G, caller_full_name,
                                  candidates[CHOOSE i \in nearby : \A j \in nearby : i <= j])]
                 ELSE [self EXCEPT !.function_graph =
                          AddLowConfidenceEdges(G, caller_full_name,
                              SubSeq(candidates, 1,
                                     IF Len(candidates) < TopCandidates
                                     THEN Len(candidates) ELSE TopCandidates))]
        ELSE self

external_libs ==
    {"os", "sys", "re", "json", "ast", "pathlib", "collections",
     "numpy", "pandas", "nltk", "pickle", "torch", "tensorflow",
     "sklearn", "matplotlib", "seaborn", "requests", "flask",
     "django", "fastapi", "typing", "datetime", "time", "asyncio",
     "networkx", "llama_index", "langchain", "groq", "pydantic",
     "subprocess", "shutil", "dotenv", "contextlib", "abc"}

\* possible_files of _add_import_edge, the None entry left out
possible_files(to_module) ==
    <<to_module \o ".py", ReplaceChar(to_module, ".", "/") \o ".py">>
    \o (IF EndsWith(to_module, ".py") THEN <<to_module>> ELSE <<>>)

\* record_import with add_edge forgotten: the two nodes only.
RecordImportNodesOnly(IG, from_file, to_module) ==
    AddNode(AddNode(IG, from_file), to_module)

\* _add_import_edge, lines 308-310: the import graph tracks all imports
record_import(IG, from_file, to_module) ==
    AddEdge(AddNode(AddNode(IG, from_file), to_module), from_file, to_module)

\* _add_import_edge, lines 312-344: the file graph gets an edge to the first
\* possible file that is a node of it, else to a relative module itself
link_local_import(FG, from_file, to_module) ==
    LET pfs == possible_files(to_module)
        found == {i \in 1..Len(pfs) : pfs[i] \in Range(FG.nodes)}
        is_local == StartsWith(to_module, ".")
        module_root == SplitFirst(to_module, ".")
    IN  IF found # {}
        THEN AddEdge(FG, from_file, pfs[CHOOSE i \in found : \A j \in found : i <= j])
        ELSE IF module_root \notin external_libs /\ is_local
        THEN AddEdge(FG, from_file, to_module)
        ELSE FG

\* CodePageRankAnalyzer._add_import_edge
add_import_edge(self, from_file, to_module) ==
    [self EXCEPT !.import_graph = record_import(@, from_file, to_module),
                 !.file_graph = link_local_import(@, from_file, to_module)]

\* for alias in node.names: self._add_import_edge(relative_path, alias.name)
RECURSIVE AddImports(_, _, _)
AddImports(self, relative_path, names) ==
    IF names = <<>> THEN self
    ELSE AddImports(add_import_edge(self, relative_path, Head(names)),
                    relative_path, Tail(names))

\* for child in ast.walk(node): a call of a plain name adds a call edge
RECURSIVE AddCalls(_, _, _, _)
AddCalls(self, func_full_name, relative_path, calls) ==
    IF calls = <<>> THEN self
    ELSE LET child == Head(calls)
             next == IF child.kind = "Name"
                     THEN add_function_call_edge(self, func_full_name, child.id,
                                                 relative_path)
                     ELSE self
         IN  AddCalls(next, func_full_name, relative_path, Tail(calls))

\* CodePageRankAnalyzer._analyze_file, its walk of the tree
RECURSIVE AnalyzeTree(_, _, _)
AnalyzeTree(self, relative_path, tree) ==
    IF tree = <<>> THEN self
    ELSE LET node == Head(tree)
             next ==
                 CASE node.type = "Import" ->
                        AddImports(self, relative_path, node.names)
                   [] node.type = "ImportFrom" ->
                        IF node.name # None
                        THEN add_import_edge(self, relative_path, node.name)
                        ELSE self
                   [] node.type = "FunctionDef" ->
                        AddCalls(self, QualifiedName(relative_path, node.name),
                                 relative_path, node.calls)
                   [] OTHER -> self
         IN  AnalyzeTree(next, relative_path, Tail(tree))

\* analyze_file with the file node added before the file is parsed.
AnalyzeFileNodeFirst(self, file) ==
    AnalyzeTree([self EXCEPT !.file_graph = AddNode(@, file.path)],
                file.path, file.tree)

\* CodePageRankAnalyzer._analyze_file: Pass 2 on a Python file
analyze_file(self, file) ==
    IF file.parses
    THEN AnalyzeTree([self EXCEPT !.file_graph = AddNode(@, file.path)],
                     file.path, file.tree)
    ELSE self

-----------------------------------------------------------------------------
(* The regular expressions of the non-Python languages, on a token text.   *)
(* A token is a word (\w+), a quoted or bracketed literal, or punctuation; *)
(* the file's text is its tokens joined by single spaces.  Token k starts  *)
(* at position 2k and the space before it is position 2k-1, which orders   *)
(* the matches as their character offsets do.  A match is [start, last,    *)
(* name]: its position, the index of its last token, and group(1).         *)

WordChars ==
    {"a", "b", "c", "d", "e", "f", "g", "h", "i", "j", "k", "l", "m", "n", "o",
     "p", "q", "r", "s", "t", "u", "v", "w", "x", "y", "z", "_",
     "0", "1", "2", "3", "4", "5", "6", "7", "8", "9"} \cup DOMAIN UpperToLower

\* re.fullmatch(r"\w+", t)
IsWord(t) == t # "" /\ \A i \in 1..Len(t) : Char(t, i) \in WordChars

\* the token at k, "" past the end of the text
Tok(tokens, k) == IF k \in 1..Len(tokens) THEN tokens[k] ELSE ""

\* The members of a set of integers in increasing order.
RECURSIVE Ascending(_)
Ascending(S) ==
    IF S = {} THEN <<>>
    ELSE LET m == CHOOSE x \in S : \A y \in S : x <= y
         IN  <<m>> \o Ascending(S \ {m})

\* re.finditer yields non-overlapping matches: one that starts inside the
\* previous match is not found.
RECURSIVE NonOverlapping(_, _)
NonOverlapping(matches, after) ==
    IF matches = <<>> THEN <<>>
    ELSE IF Head(matches).start <= after
         THEN NonOverlapping(Tail(matches), after)
         ELSE <<Head(matches)>> \o NonOverlapping(Tail(matches), 2 * Head(matches).last)

Match(start, last, name) == [start |-> start, last |-> last, name |-> name]

\* r"function\s+(\w+)\s*\("
FunctionKeywordMatches(tokens) ==
    LET at == {k \in 1..Len(tokens) :
                 /\ IsWord(tokens[k]) /\ EndsWith(tokens[k], "function")
                 /\ IsWord(Tok(tokens, k + 1)) /\ Tok(tokens, k + 2) = "("}
        ks == Ascending(at)
    IN  NonOverlapping([i \in 1..Len(ks) |-> Match(2 * ks[i], ks[i] + 2, tokens[ks[i] + 1])], 0)

\* the first ")" "=>" at or after token j, 0 when there is none: the lazy .*?
ArrowClose(tokens, j) ==
    LET at == {m \in j..Len(tokens) : tokens[m] = ")" /\ Tok(tokens, m + 1) = "=>"}
    IN  IF at = {} THEN 0 ELSE CHOOSE m \in at : \A n \in at : m <= n

\* r"const\s+(\w+)\s*=\s*\(.*?\)\s*=>"
ConstArrowMatches(tokens) ==
    LET at == {k \in 1..Len(tokens) :
                 /\ IsWord(tokens[k]) /\ EndsWith(tokens[k], "const")
                 /\ IsWord(Tok(tokens, k + 1)) /\ Tok(tokens, k + 2) = "="
                 /\ Tok(tokens, k + 3) = "(" /\ ArrowClose(tokens, k + 4) # 0}
        ks == Ascending(at)
    IN  NonOverlapping([i \in 1..Len(ks) |->
            Match(2 * ks[i], ArrowClose(tokens, ks[i] + 4) + 1, tokens[ks[i] + 1])], 0)

\* r"const\s+(\w+)\s*=\s*function"
ConstFunctionMatches(tokens) ==
    LET at == {k \in 1..Len(tokens) :
                 /\ IsWord(tokens[k]) /\ EndsWith(tokens[k], "const")
                 /\ IsWord(Tok(tokens, k + 1)) /\ Tok(tokens, k + 2) = "="
                 /\ StartsWith(Tok(tokens, k + 3), "function")}
        ks == Ascending(at)
    IN  NonOverlapping([i \in 1..Len(ks) |-> Match(2 * ks[i], ks[i] + 3, tokens[ks[i] + 1])], 0)

java_modifiers == {"public", "protected", "private", "static"}

\* Where the run of modifiers and spaces before token t starts.
RECURSIVE ModifierRunStart(_, _)
ModifierRunStart(tokens, t) ==
    IF t = 1 THEN 2
    ELSE IF tokens[t - 1] \in java_modifiers THEN ModifierRunStart(tokens, t - 1)
    ELSE 2 * t - 1

\* r"(?:public|protected|private|static|\s)+\w+\s+(\w+)\s*\(": the return
\* type at token k follows at least a space
JavaMethodMatches(tokens) ==
    LET at == {k \in 2..Len(tokens) :
                 /\ IsWord(tokens[k]) /\ IsWord(Tok(tokens, k + 1))
                 /\ Tok(tokens, k + 2) = "("}
        ks == Ascending(at)
    IN  NonOverlapping([i \in 1..Len(ks) |->
            Match(ModifierRunStart(tokens, ks[i]), ks[i] + 2, tokens[ks[i] + 1])], 0)

\* r"func\s+(\w+)"
SwiftFuncMatches(tokens) ==
    LET at == {k \in 1..Len(tokens) :
                 /\ IsWord(tokens[k]) /\ EndsWith(tokens[k], "func")
                 /\ IsWord(Tok(tokens, k + 1))}
        ks == Ascending(at)
    IN  NonOverlapping([i \in 1..Len(ks) |-> Match(2 * ks[i], ks[i] + 1, tokens[ks[i] + 1])], 0)

\* r"\w+\s+(\w+)\s*\("
CFunctionMatches(tokens) ==
    LET at == {k \in 1..Len(tokens) :
                 /\ IsWord(tokens[k]) /\ IsWord(Tok(tokens, k + 1))
                 /\ Tok(tokens, k + 2) = "("}
        ks == Ascending(at)
    IN  NonOverlapping([i \in 1..Len(ks) |-> Match(2 * ks[i], ks[i] + 2, tokens[ks[i] + 1])], 0)

\* CodePageRankAnalyzer._get_function_patterns with re.finditer applied:
\* the matches of each pattern in turn
function_matches(ext, tokens) ==
    IF ext \in {".js", ".jsx", ".ts", ".tsx"}
    THEN FunctionKeywordMatches(tokens) \o ConstArrowMatches(tokens)
         \o ConstFunctionMatches(tokens)
    ELSE IF ext = ".java" THEN JavaMethodMatches(tokens)
    ELSE IF ext = ".swift" THEN SwiftFuncMatches(tokens)
    ELSE IF ext \in {".c", ".cpp", ".cc", ".cxx", ".h", ".hpp"} THEN CFunctionMatches(tokens)
    ELSE <<>>

\* r"(\w+)\s*\(", the call pattern of _analyze_generic_file
CallMatches(tokens) ==
    LET at == {k \in 1..Len(tokens) : IsWord(tokens[k]) /\ Tok(tokens, k + 1) = "("}
        ks == Ascending(at)
    IN  [i \in 1..Len(ks) |-> Match(2 * ks[i], ks[i] + 1, tokens[ks[i]])]

control_keywords == {"if", "while", "for", "switch", "catch", "return"}

\* CodePageRankAnalyzer._collect_generic_functions, its loop over the matches
RECURSIVE CollectMatches(_, _, _)
CollectMatches(self, relative_path, matches) ==
    IF matches = <<>> THEN self
    ELSE LET func_name == Head(matches).name
             func_full_name == QualifiedName(relative_path, func_name)
             next == IF func_name \notin control_keywords
                     THEN [self EXCEPT
                             !.function_graph = AddNode(@, func_full_name),
                             !.function_name_to_full =
                                 IndexAppend(@, func_name, func_full_name)]
                     ELSE self
         IN  CollectMatches(next, relative_path, Tail(matches))

\* CodePageRankAnalyzer._collect_generic_functions: Pass 1 on a non-Python file
collect_generic_functions(self, file) ==
    CollectMatches(self, file.path, function_matches(Ext(file.path), file.tokens))

Quotes == {"'", "\""}

HasQuote(t) == \E i \in 1..Len(t) : Char(t, i) \in Quotes

\* ['"]([^'"]+)['"] as one token: a quoted literal
IsQuoted(t) ==
    /\ Len(t) >= 3 /\ Char(t, 1) \in Quotes /\ Char(t, Len(t)) \in Quotes
    /\ ~HasQuote(SubSeq(t, 2, Len(t) - 1))

\* the first quoted literal after token k with no quote in between, 0 if none
QuotedAfter(tokens, k) ==
    LET at == {j \in (k + 2)..Len(tokens) :
                 /\ IsQuoted(tokens[j])
                 /\ \A m \in (k + 1)..(j - 1) : ~HasQuote(tokens[m])}
    IN  IF at = {} THEN 0 ELSE CHOOSE j \in at : \A n \in at : j <= n

\* r"import\s+[^'\"]+['\"]([^'\"]+)['\"]"
JsImportMatches(tokens) ==
    LET at == {k \in 1..Len(tokens) :
                 /\ IsWord(tokens[k]) /\ EndsWith(tokens[k], "import")
                 /\ QuotedAfter(tokens, k) # 0}
        ks == Ascending(at)
    IN  NonOverlapping([i \in 1..Len(ks) |->
            LET j == QuotedAfter(tokens, ks[i])
            IN  Match(2 * ks[i], j, SubSeq(tokens[j], 2, Len(tokens[j]) - 1))], 0)

\* r"import\s+([\w]+)"
SwiftImportMatches(tokens) ==
    LET at == {k \in 1..Len(tokens) :
                 /\ IsWord(tokens[k]) /\ EndsWith(tokens[k], "import")
                 /\ IsWord(Tok(tokens, k + 1))}
        ks == Ascending(at)
    IN  NonOverlapping([i \in 1..Len(ks) |-> Match(2 * ks[i], ks[i] + 1, tokens[ks[i] + 1])], 0)

\* ["<]([^">]+)[">] as one token
IsIncludeTarget(t) ==
    /\ Len(t) >= 3 /\ Char(t, 1) \in {"\"", "<"} /\ Char(t, Len(t)) \in {"\"", ">"}
    /\ \A i \in 2..(Len(t) - 1) : Char(t, i) \notin {"\"", ">"}

\* r"#include\s+[\"<]([^\">]+)[\">]"
IncludeMatches(tokens) ==
    LET at == {k \in 1..Len(tokens) :
                 /\ EndsWith(tokens[k], "#include")
                 /\ IsIncludeTarget(Tok(tokens, k + 1))}
        ks == Ascending(at)
    IN  [i \in 1..Len(ks) |->
            Match(2 * ks[i], ks[i] + 1, SubSeq(tokens[ks[i] + 1], 2, Len(tokens[ks[i] + 1]) - 1))]

\* CodePageRankAnalyzer._get_import_patterns with re.findall applied.  Two
\* patterns leave no room for a space where a token text has one, and match
\* nothing in it: r"require\(['\"]([^'\"]+)['\"]\)" and r"import\s+([\w\.]+);".
import_matches(ext, tokens) ==
    IF ext \in {".js", ".jsx", ".ts", ".tsx"} THEN JsImportMatches(tokens)
    ELSE IF ext = ".java" THEN <<>>
    ELSE IF ext = ".swift" THEN SwiftImportMatches(tokens)
    ELSE IF ext \in {".c", ".cpp", ".cc", ".cxx", ".h", ".hpp"} THEN IncludeMatches(tokens)
    ELSE <<>>

\* for match in re.findall(pat, content): self._add_import_edge(relative_path, match)
RECURSIVE AddImportMatches(_, _, _)
AddImportMatches(self, relative_path, matches) ==
    IF matches = <<>> THEN self
    ELSE AddImportMatches(add_import_edge(self, relative_path, Head(matches).name),
                          relative_path, Tail(matches))

\* the matches whose name is no control keyword: defined_funcs_with_pos before
\* its sort
RECURSIVE DefinedFuncs(_)
DefinedFuncs(matches) ==
    IF matches = <<>> THEN <<>>
    ELSE (IF Head(matches).name \in control_keywords THEN <<>> ELSE <<Head(matches)>>)
         \o DefinedFuncs(Tail(matches))

\* defined_funcs_with_pos.sort(): by (start, end, name); no two matches of
\* a text start at the same position, so start decides
RECURSIVE SortByPos(_)
SortByPos(ms) ==
    IF ms = <<>> THEN <<>>
    ELSE LET i == CHOOSE i \in 1..Len(ms) : \A j \in 1..Len(ms) : ms[i].start <= ms[j].start
         IN  <<ms[i]>> \o SortByPos(SubSeq(ms, 1, i - 1) \o SubSeq(ms, i + 1, Len(ms)))

\* The function a call at call_pos belongs to (lines 228-238): the first one
\* that starts before the call and whose successor starts after it, or the
\* last one; None when there is none.
caller_of(defined_funcs_with_pos, call_pos) ==
    LET n == Len(defined_funcs_with_pos)
        hit == {i \in 1..n :
                  /\ call_pos > defined_funcs_with_pos[i].start
                  /\ (i + 1 <= n => call_pos < defined_funcs_with_pos[i + 1].start)}
    IN  IF hit = {} THEN None
        ELSE defined_funcs_with_pos[CHOOSE i \in hit : \A j \in hit : i <= j].name

\* CodePageRankAnalyzer._analyze_generic_file, its loop over the call matches
RECURSIVE AddGenericCalls(_, _, _, _)
AddGenericCalls(self, relative_path, defined_funcs_with_pos, calls) ==
    IF calls = <<>> THEN self
    ELSE LET called_name == Head(calls).name
             caller_name == caller_of(defined_funcs_with_pos, Head(calls).start)
             next == IF called_name \notin control_keywords /\ caller_name # None
                     THEN add_function_call_edge(self,
                              QualifiedName(relative_path, caller_name),
                              called_name, relative_path)
                     ELSE self
         IN  AddGenericCalls(next, relative_path, defined_funcs_with_pos, Tail(calls))

\* CodePageRankAnalyzer._analyze_generic_file: Pass 2 on a non-Python file
analyze_generic_file(self, file) ==
    LET ext == Ext(file.path)
        withNode == [self EXCEPT !.file_graph = AddNode(@, file.path)]
        withImports == AddImportMatches(withNode, file.path,
                                        import_matches(ext, file.tokens))
        defined_funcs_with_pos ==
            SortByPos(DefinedFuncs(function_matches(ext, file.tokens)))
    IN  AddGenericCalls(withImports, file.path, defined_funcs_with_pos,
                        CallMatches(file.tokens))

\* The body of analyze_repository's first loop (lines 31-41) for one file.
pass1_file(self, file) ==
    IF ~IsEligible(file.path) THEN self
    ELSE IF Ext(file.path) = ".py" THEN collect_python_functions(self, file)
    ELSE collect_generic_functions(self, file)

\* The body of analyze_repository's second loop (lines 48-58) for one file.
pass2_file(self, file) ==
    IF ~IsEligible(file.path) THEN self
    ELSE IF Ext(file.path) = ".py" THEN analyze_file(self, file)
    ELSE analyze_generic_file(self, file)

-----------------------------------------------------------------------------
(* The Relevance Ranker.  A score is a fraction [num, den].  nx.pagerank   *)
(* is the power iteration of networkx on fixed-point numbers of six        *)
(* decimals, the precision of its tolerance.                               *)

Score(num, den) == [num |-> num, den |-> den]

\* One in the fixed-point arithmetic of the power iteration (tol = 1e-06).
PrScale == 1000000

\* alpha=0.85, in hundredths
Alpha == 85

\* max_iter of nx.pagerank
MaxIter == 100

RECURSIVE SumOver(_, _)
SumOver(f, S) ==
    IF S = {} THEN 0
    ELSE LET x == CHOOSE x \in S : TRUE IN f[x] + SumOver(f, S \ {x})

Abs(x) == IF x < 0 THEN -x ELSE x

\* the weight attribute of an edge in tenths, 1.0 when it has none
EdgeWeight(G, e) == IF e \in DOMAIN G.weight THEN G.weight[e] ELSE 10

\* the sum of the weights of the edges leaving u
OutWeight(G, u) ==
    SumOver([e \in Range(G.edges) |-> EdgeWeight(G, e)],
            {e \in Range(G.edges) : e[1] = u})

\* x = alpha * (x @ A + sum(x[is_dangling]) * dangling_weights) + (1 - alpha) * p
PowerStep(G, x) ==
    LET V == Range(G.nodes)
        N == Len(G.nodes)
        dangling == SumOver(x, {u \in V : OutWeight(G, u) = 0})
        inflow(v) ==
            SumOver([e \in Range(G.edges) |->
                        (x[e[1]] * EdgeWeight(G, e)) \div OutWeight(G, e[1])],
                    {e \in Range(G.edges) : e[2] = v})
    IN  Dict([v \in V |->
                (Alpha * (inflow(v) + dangling \div N)) \div 100
                + ((100 - Alpha) * (PrScale \div N)) \div 100])

\* Up to k steps of the loop of nx.pagerank from x: the last vector, and
\* whether err < N * tol stopped the loop there.  The steps are taken half
\* by half, which keeps the evaluation shallow.
RECURSIVE PowerSteps(_, _, _)
PowerSteps(G, x, k) ==
    IF k = 1
    THEN Bind(PowerStep(G, x), LAMBDA y :
             [x |-> y,
              done |-> SumOver([v \in Range(G.nodes) |-> Abs(y[v] - x[v])],
                               Range(G.nodes)) < Len(G.nodes)])
    ELSE Bind(PowerSteps(G, x, k \div 2), LAMBDA r :
             IF r.done THEN r ELSE PowerSteps(G, r.x, k - k \div 2))

\* the loop of nx.pagerank: the vector once err < N * tol, <<>> when max_iter
\* steps do not get there (PowerIterationFailedConvergence)
PowerIterate(G, x, iter) ==
    IF iter = MaxIter THEN <<>>
    ELSE Bind(PowerSteps(G, x, MaxIter - iter), LAMBDA r :
             IF r.done THEN r.x ELSE <<>>)

\* SortedByScoreDesc with reverse=True forgotten.
RECURSIVE SortedByScoreAsc(_)
SortedByScoreAsc(items) ==
    IF items = <<>> THEN <<>>
    ELSE LET best == {i \in 1..Len(items) :
                        \A j \in 1..Len(items) : items[i][2].num <= items[j][2].num}
             i == CHOOSE i \in best : \A j \in best : i <= j
         IN  <<items[i]>>
             \o SortedByScoreAsc(SubSeq(items, 1, i - 1) \o SubSeq(items, i + 1, Len(items)))

\* sorted(items, key=lambda x: x[1], reverse=True): stable, equal keys keep
\* their order
RECURSIVE SortedByScoreDesc(_)
SortedByScoreDesc(items) ==
    IF items = <<>> THEN <<>>
    ELSE LET best == {i \in 1..Len(items) :
                        \A j \in 1..Len(items) : items[i][2].num >= items[j][2].num}
             i == CHOOSE i \in best : \A j \in best : i <= j
         IN  <<items[i]>>
             \o SortedByScoreDesc(SubSeq(items, 1, i - 1) \o SubSeq(items, i + 1, Len(items)))

\* nx.pagerank(G, alpha=0.85) followed by sorted(pagerank.items(), ...);
\* the except clause turns a failure into []
pagerank_sorted(G) ==
    LET N == Len(G.nodes)
    IN  Bind(PowerIterate(G, Dict([v \in Range(G.nodes) |-> PrScale \div N]), 0), LAMBDA x :
            IF x = <<>> THEN <<>>
            ELSE SortedByScoreDesc(
                     List([i \in 1..N |-> <<G.nodes[i], Score(x[G.nodes[i]], PrScale)>>])))

\* get_function_pagerank without its edgeless case.
GetFunctionPagerankAlwaysIterates(self) ==
    IF Len(self.function_graph.nodes) = 0 THEN <<>>
    ELSE pagerank_sorted(self.function_graph)

\* CodePageRankAnalyzer.get_function_pagerank
get_function_pagerank(self) ==
    LET G == self.function_graph
        n == Len(G.nodes)
    IN  IF n = 0 THEN <<>>
        ELSE IF Len(G.edges) = 0 THEN [i \in 1..n |-> <<G.nodes[i], Score(1, n)>>]
        ELSE pagerank_sorted(G)

\* nx.pagerank(G, alpha=0.85): the scores by node, <<>> when it raises
Pagerank(G) ==
    PowerIterate(G, Dict([v \in Range(G.nodes) |-> PrScale \div Len(G.nodes)]), 0)

\* The (node, score) pairs of the nodes kept, in the order of the graph.
ScoreItems(G, x, Keep(_)) ==
    LET kept(i) == Keep(G.nodes[i])
        at == SelectSeq(List([i \in 1..Len(G.nodes) |-> i]), kept)
    IN  List([k \in 1..Len(at) |-> <<G.nodes[at[k]], Score(x[G.nodes[at[k]]], PrScale)>>])

CODE_EXTENSIONS ==
    {".py", ".js", ".jsx", ".ts", ".tsx", ".java", ".cpp", ".c", ".h", ".hpp", ".swift"}

\* any(node.endswith(ext) for ext in CODE_EXTENSIONS)
IsCodeFile(node) == \E ext \in CODE_EXTENSIONS : EndsWith(node, ext)

\* CodePageRankAnalyzer.get_file_pagerank; raises: nx.pagerank raised
\* inside the try
get_file_pagerank(self, raises) ==
    LET G == self.file_graph
    IN  IF Len(G.nodes) = 0 THEN <<>>
        ELSE IF raises THEN <<>>
        ELSE Bind(Pagerank(G), LAMBDA x :
                 IF x = <<>> THEN <<>>
                 ELSE SortedByScoreDesc(ScoreItems(G, x, IsCodeFile)))

\* CodePageRankAnalyzer.get_import_pagerank
get_import_pagerank(self, raises) ==
    LET G == self.import_graph
        all(node) == TRUE
    IN  IF Len(G.nodes) = 0 THEN <<>>
        ELSE IF raises THEN <<>>
        ELSE Bind(Pagerank(G), LAMBDA x :
                 IF x = <<>> THEN <<>>
                 ELSE SortedByScoreDesc(ScoreItems(G, x, all)))

\* dict(G.out_degree()) and dict(G.in_degree()) at a node
OutDegree(G, n) == Cardinality({e \in Range(G.edges) : e[1] = n})
InDegree(G, n) == Cardinality({e \in Range(G.edges) : e[2] = n})

hub_file_extensions ==
    {".py", ".js", ".ts", ".jsx", ".tsx", ".java", ".cpp", ".c", ".h", ".go", ".rs",
     ".md", ".txt"}

known_modules ==
    {"os", "sys", "re", "json", "ast", "pathlib", "collections", "numpy", "pandas"}

\* any(node.endswith(ext) for ext in file_extensions) or '/' in node
IsFilePath(node) ==
    (\E ext \in hub_file_extensions : EndsWith(node, ext)) \/ Contains(node, "/")

\* SortedByDegreeDesc with equal degrees in reverse order.
RECURSIVE SortedByDegreeLastFirst(_)
SortedByDegreeLastFirst(items) ==
    IF items = <<>> THEN <<>>
    ELSE LET best == {i \in 1..Len(items) :
                        \A j \in 1..Len(items) : items[i][2] >= items[j][2]}
             i == CHOOSE i \in best : \A j \in best : i >= j
         IN  <<items[i]>>
             \o SortedByDegreeLastFirst(SubSeq(items, 1, i - 1)
                                        \o SubSeq(items, i + 1, Len(items)))

\* sorted(results, key=lambda x: x[1], reverse=True): stable, equal degrees
\* keep their order
RECURSIVE SortedByDegreeDesc(_)
SortedByDegreeDesc(items) ==
    IF items = <<>> THEN <<>>
    ELSE LET best == {i \in 1..Len(items) :
                        \A j \in 1..Len(items) : items[i][2] >= items[j][2]}
             i == CHOOSE i \in best : \A j \in best : i <= j
         IN  <<items[i]>>
             \o SortedByDegreeDesc(SubSeq(items, 1, i - 1)
                                   \o SubSeq(items, i + 1, Len(items)))

\* seq[:top_n] for top_n >= 0
Top(seq, top_n) == SubSeq(seq, 1, IF Len(seq) < top_n THEN Len(seq) ELSE top_n)

\* The body get_hub_files and get_authority_files share (lines 408-428 and
\* 435-455), Degree being the out-degree or the in-degree.
TopByDegree(G, Degree(_, _), top_n) ==
    LET nodes == G.nodes
        passes(n) == IsFilePath(n)
        unknown(n) == n \notin known_modules
        positive(item) == item[2] > 0
        filtered == IF SelectSeq(nodes, passes) # <<>> THEN SelectSeq(nodes, passes)
                    ELSE SelectSeq(nodes, unknown)
        results == SelectSeq(List([i \in 1..Len(filtered) |->
                                     <<filtered[i], Degree(G, filtered[i])>>]), positive)
    IN  IF Len(nodes) = 0 THEN <<>> ELSE Top(SortedByDegreeDesc(results), top_n)

\* CodePageRankAnalyzer.get_hub_files
get_hub_files(self, top_n) == TopByDegree(self.file_graph, OutDegree, top_n)

\* CodePageRankAnalyzer.get_authority_files
get_authority_files(self, top_n) == TopByDegree(self.file_graph, InDegree, top_n)

\* The distance from a source to each node a path leads to, by breadth-first
\* search from the frontier at distance k.
RECURSIVE ShortestFrom(_, _, _, _)
ShortestFrom(edges, dist, frontier, k) ==
    IF frontier = {} THEN dist
    ELSE LET next == {e[2] : e \in {d \in edges : d[1] \in frontier}} \ DOMAIN dist
         IN  ShortestFrom(edges,
                          Dict([v \in DOMAIN dist \cup next |->
                                   IF v \in DOMAIN dist THEN dist[v] ELSE k + 1]),
                          next, k + 1)

Distances(G, s) == ShortestFrom(Range(G.edges), s :> 0, {s}, 0)

\* sigma: the number of shortest paths from s to t, 0 when there is none
RECURSIVE PathCount(_, _, _)
PathCount(G, s, t) ==
    LET dist == Distances(G, s)
    IN  IF t = s THEN 1
        ELSE IF t \notin DOMAIN dist THEN 0
        ELSE LET before == {e[1] : e \in {d \in Range(G.edges) :
                               /\ d[2] = t /\ d[1] \in DOMAIN dist
                               /\ dist[d[1]] = dist[t] - 1}}
             IN  SumOver([u \in before |-> PathCount(G, s, u)], before)

\* The shortest paths from s to t that pass through v.
PathsThrough(G, s, t, v) ==
    LET ds == Distances(G, s)
        dv == Distances(G, v)
    IN  IF /\ v \in DOMAIN ds /\ t \in DOMAIN dv /\ t \in DOMAIN ds
           /\ ds[v] + dv[t] = ds[t]
        THEN PathCount(G, s, v) * PathCount(G, v, t) ELSE 0

RECURSIVE Gcd(_, _)
Gcd(a, b) == IF b = 0 THEN a ELSE Gcd(b, a % b)

RECURSIVE LcmOver(_)
LcmOver(S) ==
    IF S = {} THEN 1
    ELSE LET x == CHOOSE x \in S : TRUE
             rest == LcmOver(S \ {x})
         IN  (x * rest) \div Gcd(x, rest)

\* nx.betweenness_centrality(G): for each node the sum over the pairs
\* (s, t) around it of the share of the shortest paths from s to t that
\* pass through it, divided by (n - 1)(n - 2) when n > 2; the scores are
\* fractions of one denominator.
betweenness_centrality(G) ==
    LET V == Range(G.nodes)
        n == Len(G.nodes)
        pairs == {p \in V \X V : p[1] # p[2] /\ PathCount(G, p[1], p[2]) > 0}
        unit == LcmOver({PathCount(G, p[1], p[2]) : p \in pairs})
        scale == IF n > 2 THEN (n - 1) * (n - 2) ELSE 1
        around(v) == {p \in pairs : p[1] # v /\ p[2] # v}
        share(v) == [p \in around(v) |->
                        (PathsThrough(G, p[1], p[2], v) * unit)
                            \div PathCount(G, p[1], p[2])]
    IN  Dict([v \in V |-> Score(SumOver(share(v), around(v)), unit * scale)])

\* get_central_functions without its edgeless case.
GetCentralFunctionsAlwaysComputes(self, top_n, raises) ==
    LET G == self.function_graph
    IN  IF Len(G.nodes) = 0 THEN <<>>
        ELSE IF raises THEN <<>>
        ELSE Bind(betweenness_centrality(G), LAMBDA centrality :
                 Top(SortedByScoreDesc(List([i \in 1..Len(G.nodes) |->
                        <<G.nodes[i], centrality[G.nodes[i]]>>])), top_n))

\* CodePageRankAnalyzer.get_central_functions; raises:
\* nx.betweenness_centrality raised inside the try
get_central_functions(self, top_n, raises) ==
    LET G == self.function_graph
    IN  IF Len(G.nodes) = 0 THEN <<>>
        ELSE IF Len(G.edges) = 0 THEN <<>>
        ELSE IF raises THEN <<>>
        ELSE Bind(betweenness_centrality(G), LAMBDA centrality :
                 Top(SortedByScoreDesc(List([i \in 1..Len(G.nodes) |->
                        <<G.nodes[i], centrality[G.nodes[i]]>>])), top_n))

-----------------------------------------------------------------------------
(* FunctionDependencyAnalyzer: one graph, its nodes the function names as  *)
(* written in the source.                                                  *)

\* FunctionDependencyAnalyzer.__init__
NewDependencyAnalyzer == [graph |-> EmptyGraph]

\* for child in ast.walk(node): self.graph.add_edge(func_name, called_func)
RECURSIVE DepAddCalls(_, _, _)
DepAddCalls(G, func_name, calls) ==
    IF calls = <<>> THEN G
    ELSE DepAddCalls(IF Head(calls).kind = "Name"
                     THEN AddEdge(G, func_name, Head(calls).id) ELSE G,
                     func_name, Tail(calls))

RECURSIVE DepWalk(_, _)
DepWalk(G, tree) ==
    IF tree = <<>> THEN G
    ELSE DepWalk(IF Head(tree).type = "FunctionDef"
                 THEN DepAddCalls(AddNode(G, Head(tree).name), Head(tree).name,
                                  Head(tree).calls)
                 ELSE G,
                 Tail(tree))

\* FunctionDependencyAnalyzer.analyze_python_file
analyze_python_file(self, file) ==
    IF file.parses THEN [self EXCEPT !.graph = DepWalk(@, file.tree)] ELSE self

\* r"(?:public|protected|private)\s+\w+\s+(\w+)\s*\("
DepJavaMethodMatches(tokens) ==
    LET at == {k \in 1..Len(tokens) :
                 /\ IsWord(tokens[k])
                 /\ \E m \in {"public", "protected", "private"} : EndsWith(tokens[k], m)
                 /\ IsWord(Tok(tokens, k + 1)) /\ IsWord(Tok(tokens, k + 2))
                 /\ Tok(tokens, k + 3) = "("}
        ks == Ascending(at)
    IN  NonOverlapping([i \in 1..Len(ks) |-> Match(2 * ks[i], ks[i] + 3, tokens[ks[i] + 2])], 0)

\* func_patterns of FunctionDependencyAnalyzer.analyze_generic_file applied
dep_function_matches(ext, tokens) ==
    IF ext \in {".js", ".jsx", ".ts", ".tsx"}
    THEN FunctionKeywordMatches(tokens) \o ConstArrowMatches(tokens)
         \o ConstFunctionMatches(tokens)
    ELSE IF ext = ".java" THEN DepJavaMethodMatches(tokens)
    ELSE IF ext = ".swift" THEN SwiftFuncMatches(tokens)
    ELSE IF ext \in {".c", ".cpp", ".cc", ".cxx", ".h", ".hpp"} THEN CFunctionMatches(tokens)
    ELSE <<>>

dep_definition_keywords == {"if", "while", "for", "switch", "catch"}

\* the matches kept as definitions (line 87)
RECURSIVE DepDefinedFuncs(_)
DepDefinedFuncs(matches) ==
    IF matches = <<>> THEN <<>>
    ELSE (IF Head(matches).name \in dep_definition_keywords THEN <<>> ELSE <<Head(matches)>>)
         \o DepDefinedFuncs(Tail(matches))

RECURSIVE DepAddNodes(_, _)
DepAddNodes(G, defs) ==
    IF defs = <<>> THEN G ELSE DepAddNodes(AddNode(G, Head(defs).name), Tail(defs))

\* the loop over the call matches (lines 103-125)
RECURSIVE DepAddGenericCalls(_, _, _)
DepAddGenericCalls(G, defined_funcs_with_pos, calls) ==
    IF calls = <<>> THEN G
    ELSE LET called_name == Head(calls).name
             caller_name == caller_of(defined_funcs_with_pos, Head(calls).start)
             next == IF /\ called_name \notin control_keywords
                        /\ caller_name # None /\ caller_name # called_name
                     THEN AddEdge(G, caller_name, called_name) ELSE G
         IN  DepAddGenericCalls(next, defined_funcs_with_pos, Tail(calls))

\* FunctionDependencyAnalyzer.analyze_generic_file
dep_analyze_generic_file(self, file) ==
    LET defs == DepDefinedFuncs(dep_function_matches(Ext(file.path), file.tokens))
    IN  [self EXCEPT !.graph =
            DepAddGenericCalls(DepAddNodes(@, defs), SortByPos(defs),
                               CallMatches(file.tokens))]

\* The body of FunctionDependencyAnalyzer.analyze_repository's loop for one file.
dep_visit_file(self, file) ==
    IF ~IsEligible(file.path) THEN self
    ELSE IF Ext(file.path) = ".py" THEN analyze_python_file(self, file)
    ELSE dep_analyze_generic_file(self, file)

\* FunctionDependencyAnalyzer.find_dependencies
find_dependencies(self, function_name) ==
    IF function_name \notin Range(self.graph.nodes) THEN <<>>
    ELSE Successors(self.graph.edges, function_name)

\* FunctionDependencyAnalyzer.find_callers
find_callers(self, function_name) ==
    IF function_name \notin Range(self.graph.nodes) THEN <<>>
    ELSE Predecessors(self.graph.edges, function_name)

-----------------------------------------------------------------------------
(* ImprovedCodeSnippetExtractor: the Fragment Locator.  A file on disk is  *)
(* its path and its text; positions in strings are 1-based and the ranges  *)
(* of the matcher are inclusive at both ends.                              *)

\* ImprovedCodeSnippetExtractor.__init__
NewExtractor == [file_cache |-> <<>>]

\* The characters \s matches, among those the texts are written with.
Whitespace == {" ", "\t", "\n", "\r"}

\* The characters \d matches.
Digits == {"0", "1", "2", "3", "4", "5", "6", "7", "8", "9"}

\* The first position from i on whose character is outside cls.
RECURSIVE SkipWhile(_, _, _)
SkipWhile(s, i, cls) ==
    IF i <= Len(s) /\ Char(s, i) \in cls THEN SkipWhile(s, i + 1, cls) ELSE i

\* Where a match of \s*\d+\s*\|\s* that begins at i ends (the position
\* after it), 0 when there is none.
LineNumberEnd(s, i) ==
    Bind(SkipWhile(s, i, Whitespace), LAMBDA d :
    Bind(SkipWhile(s, d, Digits), LAMBDA e :
    Bind(SkipWhile(s, e, Whitespace), LAMBDA p :
        IF e > d /\ p <= Len(s) /\ Char(s, p) = "|"
        THEN SkipWhile(s, p + 1, Whitespace) ELSE 0)))

\* re.sub(r'^\s*\d+\s*\|\s*', '', code, flags=re.MULTILINE), from position i
RECURSIVE RemoveLineNumbers(_, _)
RemoveLineNumbers(code, i) ==
    IF i > Len(code) THEN ""
    ELSE Bind(IF i = 1 \/ Char(code, i - 1) = "\n" THEN LineNumberEnd(code, i) ELSE 0,
              LAMBDA e : IF e > 0 THEN RemoveLineNumbers(code, e)
                         ELSE Char(code, i) \o RemoveLineNumbers(code, i + 1))

\* The position of the first line end from i on, Len(s) + 1 if none.
RECURSIVE LineEnd(_, _)
LineEnd(s, i) ==
    IF i <= Len(s) /\ Char(s, i) # "\n" THEN LineEnd(s, i + 1) ELSE i

\* s.split('\n'), from position i
RECURSIVE SplitLines(_, _)
SplitLines(s, i) ==
    Bind(LineEnd(s, i), LAMBDA e :
        IF e > Len(s) THEN <<SubSeq(s, i, Len(s))>>
        ELSE <<SubSeq(s, i, e - 1)>> \o SplitLines(s, e + 1))

\* f.readlines(), from position i: the lines with their line ends
RECURSIVE ReadLines(_, _)
ReadLines(text, i) ==
    IF i > Len(text) THEN <<>>
    ELSE Bind(LineEnd(text, i), LAMBDA e :
             IF e > Len(text) THEN <<SubSeq(text, i, Len(text))>>
             ELSE <<SubSeq(text, i, e)>> \o ReadLines(text, e + 1))

\* The length of s[1..n] without the whitespace it ends in.
RECURSIVE RStripLen(_, _)
RStripLen(s, n) ==
    IF n > 0 /\ Char(s, n) \in Whitespace THEN RStripLen(s, n - 1) ELSE n

\* s.rstrip()
RStrip(s) == SubSeq(s, 1, RStripLen(s, Len(s)))

\* s.strip()
Strip(s) == SubSeq(s, SkipWhile(s, 1, Whitespace), RStripLen(s, Len(s)))

\* not line.strip()
IsBlank(line) == SkipWhile(line, 1, Whitespace) > Len(line)

\* while lines and not lines[0].strip(): lines.pop(0)
RECURSIVE DropLeadingBlank(_)
DropLeadingBlank(lines) ==
    IF lines # <<>> /\ IsBlank(Head(lines)) THEN DropLeadingBlank(Tail(lines)) ELSE lines

\* while lines and not lines[-1].strip(): lines.pop()
RECURSIVE DropTrailingBlank(_)
DropTrailingBlank(lines) ==
    IF lines # <<>> /\ IsBlank(lines[Len(lines)])
    THEN DropTrailingBlank(SubSeq(lines, 1, Len(lines) - 1)) ELSE lines

\* [line.rstrip() for line in lines]
RStripAll(lines) == List([i \in 1..Len(lines) |-> RStrip(lines[i])])

\* ImprovedCodeSnippetExtractor.normalize_code
normalize_code(code) ==
    Bind(RemoveLineNumbers(code, 1), LAMBDA unnumbered :
    Bind(SplitLines(unnumbered, 1), LAMBDA split :
    Bind(RStripAll(split), LAMBDA lines :
    Bind(DropLeadingBlank(lines), LAMBDA rest : DropTrailingBlank(rest)))))

\* sep.join(lines)
RECURSIVE Join(_, _)
Join(lines, sep) ==
    IF lines = <<>> THEN ""
    ELSE IF Len(lines) = 1 THEN lines[1]
    ELSE lines[1] \o sep \o Join(Tail(lines), sep)

\* The characters of a string, in a list.
Chars(s) == List([i \in 1..Len(s) |-> Char(s, i)])

\* How far a[i..ahi] and b[j..bhi] run equal.
RECURSIVE RunLength(_, _, _, _, _, _)
RunLength(a, b, i, j, ahi, bhi) ==
    IF i <= ahi /\ j <= bhi /\ a[i] = b[j]
    THEN 1 + RunLength(a, b, i + 1, j + 1, ahi, bhi) ELSE 0

\* The blocks common to a[alo..ahi] and b[blo..bhi] that no common block
\* contains.
CommonBlocks(a, b, alo, ahi, blo, bhi) ==
    {[i |-> p[1], j |-> p[2], size |-> RunLength(a, b, p[1], p[2], ahi, bhi)] :
        p \in {q \in (alo..ahi) \X (blo..bhi) :
                 /\ a[q[1]] = b[q[2]]
                 /\ (q[1] = alo \/ q[2] = blo \/ a[q[1] - 1] # b[q[2] - 1])}}

\* SequenceMatcher.find_longest_match without junk (no isjunk, and texts
\* under 200 characters have no popular elements): the longest block common
\* to a[alo..ahi] and b[blo..bhi], the earliest in a and then in b.
find_longest_match(a, b, alo, ahi, blo, bhi) ==
    Bind(CommonBlocks(a, b, alo, ahi, blo, bhi), LAMBDA blocks :
        IF blocks = {} THEN [i |-> alo, j |-> blo, size |-> 0]
        ELSE CHOOSE m \in blocks : \A q \in blocks :
                 \/ m.size > q.size
                 \/ /\ m.size = q.size
                    /\ (m.i < q.i \/ (m.i = q.i /\ m.j <= q.j)))

\* SequenceMatcher.get_matching_blocks, summed: the longest block, then the
\* same to its left and to its right.
RECURSIVE MatchedSize(_, _, _, _, _, _)
MatchedSize(a, b, alo, ahi, blo, bhi) ==
    Bind(find_longest_match(a, b, alo, ahi, blo, bhi), LAMBDA m :
        IF m.size = 0 THEN 0
        ELSE m.size
             + (IF alo < m.i /\ blo < m.j
                THEN MatchedSize(a, b, alo, m.i - 1, blo, m.j - 1) ELSE 0)
             + (IF m.i + m.size <= ahi /\ m.j + m.size <= bhi
                THEN MatchedSize(a, b, m.i + m.size, ahi, m.j + m.size, bhi) ELSE 0))

\* SequenceMatcher(None, a, b).ratio() as the fraction 2*M/T
Ratio(a, b) ==
    IF Len(a) + Len(b) = 0 THEN Score(1, 1)
    ELSE Bind(Chars(a), LAMBDA s : Bind(Chars(b), LAMBDA t :
             Score(2 * MatchedSize(s, t, 1, Len(s), 1, Len(t)), Len(s) + Len(t))))

\* ImprovedCodeSnippetExtractor.calculate_similarity
calculate_similarity(snippet_lines, file_lines) ==
    Bind(Join(snippet_lines, "\n"), LAMBDA snippet_text :
    Bind(Join(file_lines, "\n"), LAMBDA file_text : Ratio(snippet_text, file_text)))

\* A window is a candidate at this similarity, in hundredths (>= 0.80).
LocateThreshold == 80

\* A block is cited at this confidence, in hundredths (>= 0.85).
CitationThreshold == 85

\* The fewest normalized lines a fragment is searched for with.
MinSnippetLines == 2

\* The fewest characters of a code block enhance_response looks at.
MinBlockLength == 20

\* context_lines=2
ContextLines == 2

\* similarity >= pct / 100.  The float 2.0*M/T and the float literal are
\* both the nearest doubles of their fractions, and for texts this short no
\* two of these fractions are near enough to round to the same double.
AtLeast(similarity, pct) == similarity.num * 100 >= pct * similarity.den

\* IsCandidate with the threshold itself left out (> 0.80).
IsAboveLocateThreshold(similarity) ==
    similarity.num * 100 > LocateThreshold * similarity.den

\* similarity >= 0.80
IsCandidate(similarity) == AtLeast(similarity, LocateThreshold)

\* IsCitable with the bar of find_code_location.
IsCitableAtLocateThreshold(confidence) == AtLeast(confidence, LocateThreshold)

\* location['confidence'] >= 0.85
IsCitable(confidence) == AtLeast(confidence, CitationThreshold)

default_extensions ==
    <<".py", ".js", ".ts", ".jsx", ".tsx", ".java", ".cpp", ".c", ".h">>

locate_skip == {"venv", "__pycache__", ".git", "node_modules", "build", "dist"}

\* any(skip in str(file_path) for skip in [...]) in find_code_location
IsLocateSkipped(relative_path) ==
    \E skip \in locate_skip : Contains(repo_path \o "/" \o relative_path, skip)

\* self.repo_path / file_hint, relative to repo_path: pathlib drops the
\* "." components a relative path begins with.
RECURSIVE HintPath(_)
HintPath(file_hint) ==
    IF StartsWith(file_hint, "./")
    THEN HintPath(SubSeq(file_hint, 3, Len(file_hint))) ELSE file_hint

\* The file_extensions argument: None, one string, or a list.
NoExtensions == [kind |-> "None", exts |-> <<>>]
OneExtension(ext) == [kind |-> "str", exts |-> <<ext>>]
ExtensionList(exts) == [kind |-> "list", exts |-> exts]

\* file_extensions as find_code_location settles it
Extensions(file_extensions) ==
    IF file_extensions.kind = "None" THEN default_extensions ELSE file_extensions.exts

\* The positions in files, in order, of those satisfying the test.
RECURSIVE Positions(_, _, _)
Positions(files, Test(_), i) ==
    IF i > Len(files) THEN <<>>
    ELSE (IF Test(files[i]) THEN <<i>> ELSE <<>>) \o Positions(files, Test, i + 1)

\* search_order after the rglob of the extensions from the k-th on
RECURSIVE AddMatchingFiles(_, _, _, _)
AddMatchingFiles(files, search_order, exts, k) ==
    IF k > Len(exts) THEN search_order
    ELSE LET Globbed(f) == EndsWith(PathName(f.path), exts[k]) /\ ~IsLocateSkipped(f.path)
             new(i) == i \notin Range(search_order)
         IN  Bind(search_order \o SelectSeq(Positions(files, Globbed, 1), new),
                  LAMBDA longer : AddMatchingFiles(files, longer, exts, k + 1))

\* search_order of find_code_location, as positions in the files on disk:
\* the hint file if it exists, then what rglob yields for each extension.
SearchOrder(files, file_hint, file_extensions) ==
    LET IsHintPath(f) == f.path = HintPath(file_hint)
        hinted == IF file_hint # None /\ file_hint # ""
                  THEN Positions(files, IsHintPath, 1) ELSE <<>>
    IN  AddMatchingFiles(files, hinted, Extensions(file_extensions), 1)

\* ImprovedCodeSnippetExtractor.load_file: the lines, and the cache after
load_file(self, file) ==
    IF file.path \in DOMAIN self.file_cache
    THEN [lines |-> self.file_cache[file.path], self |-> self]
    ELSE Bind(ReadLines(file.text, 1), LAMBDA read :
             [lines |-> read,
              self  |-> [self EXCEPT !.file_cache = (file.path :> read) @@ self.file_cache]])

\* The windows of one file that the sliding loop keeps, in order.
WindowCandidates(snippet_lines, relative_path, file_lines, file_hint) ==
    LET n == Len(snippet_lines)
        window(i) == RStripAll(SubSeq(file_lines, i, i + n - 1))
        candidate(i) ==
            [file         |-> relative_path,
             start_line   |-> i,
             end_line     |-> i + n - 1,
             confidence   |-> calculate_similarity(snippet_lines, window(i)),
             is_hint_file |-> file_hint # None /\ file_hint # "" /\ relative_path = file_hint]
        kept(c) == IsCandidate(c.confidence)
    IN  SelectSeq(List([i \in 1..(Len(file_lines) - n + 1) |-> candidate(i)]), kept)

\* The search loop of find_code_location from the k-th file of search_order
\* on: the candidates, and the extractor with what it has cached.
RECURSIVE SearchFiles(_, _, _, _, _, _, _)
SearchFiles(self, files, search_order, k, snippet_lines, file_hint, candidates) ==
    IF k > Len(search_order) THEN [candidates |-> candidates, self |-> self]
    ELSE Bind(load_file(self, files[search_order[k]]), LAMBDA loaded :
         Bind(IF loaded.lines = <<>> THEN candidates
              ELSE candidates \o WindowCandidates(snippet_lines, files[search_order[k]].path,
                                                  loaded.lines, file_hint),
              LAMBDA longer : SearchFiles(loaded.self, files, search_order, k + 1,
                                          snippet_lines, file_hint, longer)))

\* IsTooShort with the length test forgotten: "if not snippet_lines".
IsEmptySnippet(snippet_lines) == snippet_lines = <<>>

\* not snippet_lines or len(snippet_lines) < 2
IsTooShort(snippet_lines) ==
    snippet_lines = <<>> \/ Len(snippet_lines) < MinSnippetLines

\* RanksAbove with the key (is_hint_file) alone.
RanksAboveByHintOnly(x, y) == x.is_hint_file /\ ~y.is_hint_file

\* x sorts before y under key (is_hint_file, confidence), reverse=True
RanksAbove(x, y) ==
    \/ x.is_hint_file /\ ~y.is_hint_file
    \/ /\ x.is_hint_file = y.is_hint_file
       /\ x.confidence.num * y.confidence.den > y.confidence.num * x.confidence.den

\* candidates[0] after the stable sort: the first that none ranks above
BestCandidate(candidates) ==
    candidates[CHOOSE k \in 1..Len(candidates) :
                  /\ \A j \in 1..Len(candidates) : ~RanksAbove(candidates[j], candidates[k])
                  /\ \A j \in 1..(k - 1) : RanksAbove(candidates[k], candidates[j])]

\* ImprovedCodeSnippetExtractor.find_code_location: what it returns (<<>>
\* for None, else the match alone) and the extractor after the call.  The
\* match's is_hint_file is FALSE where Python's is None or ''.
find_code_location(self, files, code_snippet, file_hint, file_extensions) ==
    Bind(normalize_code(code_snippet), LAMBDA snippet_lines :
        IF IsTooShort(snippet_lines) THEN [location |-> <<>>, self |-> self]
        ELSE Bind(SearchOrder(files, file_hint, file_extensions), LAMBDA search_order :
             Bind(SearchFiles(self, files, search_order, 1, snippet_lines, file_hint, <<>>),
                  LAMBDA search :
                      [location |-> IF search.candidates = <<>> THEN <<>>
                                    ELSE <<BestCandidate(search.candidates)>>,
                       self     |-> search.self])))

\* ImprovedCodeSnippetExtractor.extract_code_with_context, on a file the
\* extractor has cached
extract_code_with_context(self, file_path, start_line, end_line) ==
    LET file_lines    == self.file_cache[file_path]
        context_start == IF start_line - 1 - ContextLines > 0
                         THEN start_line - 1 - ContextLines ELSE 0
        context_end   == IF Len(file_lines) < end_line + ContextLines
                         THEN Len(file_lines) ELSE end_line + ContextLines
    IN  [code            |-> Join(SubSeq(file_lines, context_start + 1, context_end), ""),
         start_line      |-> context_start + 1,
         end_line        |-> context_end,
         highlight_start |-> start_line,
         highlight_end   |-> end_line]

\* ext_map of enhance_response
ext_map ==
    [python     |-> <<".py">>,          py |-> <<".py">>,
     javascript |-> <<".js", ".jsx">>,  js |-> <<".js", ".jsx">>,
     typescript |-> <<".ts", ".tsx">>,  ts |-> <<".ts", ".tsx">>,
     java       |-> <<".java">>,
     cpp        |-> <<".cpp", ".cc", ".cxx">>,
     c          |-> <<".c", ".h">>]

\* ext_map.get(lang.lower(), None)
BlockExtensions(lang) ==
    IF Lower(lang) \in DOMAIN ext_map THEN ExtensionList(ext_map[Lower(lang)])
    ELSE NoExtensions

\* The first key of context_metadata that the text before the block names.
FileHint(context_metadata, snippet_context) ==
    LET hits == {k \in 1..Len(context_metadata) :
                   Contains(snippet_context, context_metadata[k])}
    IN  IF hits = {} THEN None
        ELSE context_metadata[CHOOSE k \in hits : \A j \in hits : k <= j]

\* A fenced block of a response: its language tag, its code, and the text
\* of the response up to 200 characters before it.
CodeBlock(lang, code, snippet_context) ==
    [lang |-> lang, code |-> code, snippet_context |-> snippet_context]

\* A block as enhance_response leaves it: as it was, or replaced by the
\* file and line citation with the numbered context.
Uncited(block) == [lang |-> block.lang, code |-> block.code, citation |-> <<>>]

Cited(block, location, context_code) ==
    [lang |-> block.lang, code |-> context_code.code,
     citation |-> <<[file            |-> location.file,
                     confidence      |-> location.confidence,
                     start_line      |-> context_code.start_line,
                     highlight_start |-> context_code.highlight_start,
                     highlight_end   |-> context_code.highlight_end]>>]

\* The loop of enhance_response from the k-th block of the response on.
RECURSIVE EnhanceBlocks(_, _, _, _, _, _, _)
EnhanceBlocks(self, files, response, context_metadata, k, processed_blocks, enhanced) ==
    IF k > Len(response) THEN [response |-> enhanced, self |-> self]
    ELSE LET block == response[k]
         IN  IF Len(Strip(block.code)) < MinBlockLength \/ block.code \in processed_blocks
             THEN Bind(Append(enhanced, Uncited(block)), LAMBDA longer :
                      EnhanceBlocks(self, files, response, context_metadata, k + 1,
                                    processed_blocks, longer))
             ELSE Bind(find_code_location(self, files, block.code,
                                          FileHint(context_metadata, block.snippet_context),
                                          BlockExtensions(block.lang)), LAMBDA found :
                  Bind(IF found.location # <<>> /\ IsCitable(found.location[1].confidence)
                       THEN Cited(block, found.location[1],
                                  extract_code_with_context(
                                      found.self, found.location[1].file,
                                      found.location[1].start_line,
                                      found.location[1].end_line))
                       ELSE Uncited(block), LAMBDA rendered :
                  Bind(Append(enhanced, rendered), LAMBDA longer :
                      EnhanceBlocks(found.self, files, response, context_metadata, k + 1,
                                    processed_blocks \cup {block.code}, longer))))

\* ImprovedCodeSnippetExtractor.enhance_response: the response as the
\* sequence of its fenced blocks, context_metadata as its keys in order
\* (none for None).
enhance_response(self, files, response, context_metadata) ==
    EnhanceBlocks(self, files, response, context_metadata, 1, {}, <<>>)

-----------------------------------------------------------------------------
(* The Structural Extractor: generate_repo_ast and the parsers it calls.   *)
(* A function record keeps name, file, line and language (and is_async for *)
(* Python); args, docstring, methods and alias are left out.               *)

\* r"\([^)]*\)" from the "(" at token j: the index of the token ")" that
\* closes it, 0 when the first token holding a ")" is another one
CloseParen(tokens, j) ==
    LET at == {m \in (j + 1)..Len(tokens) : Contains(tokens[m], ")")}
    IN  IF at = {} THEN 0
        ELSE Bind(CHOOSE m \in at : \A n \in at : m <= n,
                  LAMBDA m : IF tokens[m] = ")" THEN m ELSE 0)

\* r"kw\s+(\w+)", followed by r"\s*\(" when paren is set
KeywordNameMatches(tokens, kw, paren) ==
    LET at == {k \in 1..Len(tokens) :
                 /\ IsWord(tokens[k]) /\ EndsWith(tokens[k], kw)
                 /\ IsWord(Tok(tokens, k + 1))
                 /\ paren => Tok(tokens, k + 2) = "("}
        ks == Ascending(at)
        last(k) == IF paren THEN k + 2 ELSE k + 1
    IN  NonOverlapping(List([i \in 1..Len(ks) |->
            Match(2 * ks[i], last(ks[i]), tokens[ks[i] + 1])]), 0)

\* r"(?:async\s+)?\([^)]*\)\s*=>" from token j: the index of its "=>", 0
\* when it does not match there
ArrowEnd(tokens, j) ==
    LET open == IF Tok(tokens, j) = "async" THEN j + 1 ELSE j
        close == IF Tok(tokens, open) = "(" THEN CloseParen(tokens, open) ELSE 0
    IN  IF close # 0 /\ Tok(tokens, close + 1) = "=>" THEN close + 1 ELSE 0

\* r"kw\s+(\w+)\s*=\s*(?:async\s+)?\([^)]*\)\s*=>" for kw const and let
DeclaredArrowMatches(tokens, kw) ==
    LET at == {k \in 1..Len(tokens) :
                 /\ IsWord(tokens[k]) /\ EndsWith(tokens[k], kw)
                 /\ IsWord(Tok(tokens, k + 1)) /\ Tok(tokens, k + 2) = "="
                 /\ ArrowEnd(tokens, k + 3) # 0}
        ks == Ascending(at)
    IN  NonOverlapping(List([i \in 1..Len(ks) |->
            Match(2 * ks[i], ArrowEnd(tokens, ks[i] + 3), tokens[ks[i] + 1])]), 0)

\* r"(\w+)\s*:\s*(?:async\s+)?\([^)]*\)\s*=>"
PropertyArrowMatches(tokens) ==
    LET at == {k \in 1..Len(tokens) :
                 /\ IsWord(tokens[k]) /\ Tok(tokens, k + 1) = ":"
                 /\ ArrowEnd(tokens, k + 2) # 0}
        ks == Ascending(at)
    IN  NonOverlapping(List([i \in 1..Len(ks) |->
            Match(2 * ks[i], ArrowEnd(tokens, ks[i] + 2), tokens[ks[i]])]), 0)

\* the first "from" followed by a quoted literal after token k, 0 if none:
\* the lazy .*? of the import pattern
FromAfter(tokens, k) ==
    LET at == {f \in (k + 1)..Len(tokens) :
                 EndsWith(tokens[f], "from") /\ IsQuoted(Tok(tokens, f + 1))}
    IN  IF at = {} THEN 0 ELSE CHOOSE f \in at : \A g \in at : f <= g

\* r"import\s+.*?from\s+['\"]([^'\"]+)['\"]"
ImportFromMatches(tokens) ==
    LET at == {k \in 1..Len(tokens) :
                 /\ IsWord(tokens[k]) /\ EndsWith(tokens[k], "import")
                 /\ FromAfter(tokens, k) # 0}
        ks == Ascending(at)
        module(k) == tokens[FromAfter(tokens, k) + 1]
    IN  NonOverlapping(List([i \in 1..Len(ks) |->
            Match(2 * ks[i], FromAfter(tokens, ks[i]) + 1,
                  SubSeq(module(ks[i]), 2, Len(module(ks[i])) - 1))]), 0)

\* re.fullmatch(r"[\w<>\[\]]+", t)
IsTypeWord(t) ==
    t # "" /\ \A i \in 1..Len(t) : Char(t, i) \in WordChars \cup {"<", ">", "[", "]"}

\* r"\s*(?:throws\s+\w+\s*)?\{" or r"\s*(?:const\s*)?\{" after the ")" at
\* token c: the index of the "{", 0 when it does not match
BodyOpen(tokens, c, ext) ==
    IF Tok(tokens, c + 1) = "{" THEN c + 1
    ELSE IF /\ ext = ".java" /\ Tok(tokens, c + 1) = "throws"
            /\ IsWord(Tok(tokens, c + 2)) /\ Tok(tokens, c + 3) = "{" THEN c + 3
    ELSE IF ext # ".java" /\ Tok(tokens, c + 1) = "const" /\ Tok(tokens, c + 2) = "{"
    THEN c + 2
    ELSE 0

\* r"\s+(\w+)\s*\([^)]*\)" and the opening of the body, the name at token
\* n: the index of the "{", 0 when it does not match
DefinitionEnd(tokens, n, ext) ==
    IF IsWord(Tok(tokens, n)) /\ Tok(tokens, n + 1) = "("
    THEN Bind(CloseParen(tokens, n + 1),
              LAMBDA c : IF c = 0 THEN 0 ELSE BodyOpen(tokens, c, ext))
    ELSE 0

\* r"(?:public|private|protected|static|\s)+[\w<>\[\]]+\s+(\w+)\s*\([^)]*\)
\*   \s*(?:throws\s+\w+\s*)?\{": the return type at token k follows at
\* least a space
MethodMatches(tokens) ==
    LET at == {k \in 2..Len(tokens) :
                 IsTypeWord(tokens[k]) /\ DefinitionEnd(tokens, k + 1, ".java") # 0}
        ks == Ascending(at)
    IN  NonOverlapping(List([i \in 1..Len(ks) |->
            Match(ModifierRunStart(tokens, ks[i]),
                  DefinitionEnd(tokens, ks[i] + 1, ".java"), tokens[ks[i] + 1])]), 0)

\* the token of the name after the type at token k: a "*" or "&" may stand
\* between them
NameAfterType(tokens, k) ==
    IF Tok(tokens, k + 1) \in {"*", "&"} THEN k + 2 ELSE k + 1

\* r"(?:\w+(?:\s*\*|\s*&)?)\s+(\w+)\s*\([^)]*\)\s*(?:const\s*)?\{"
CppFunctionMatches(tokens) ==
    LET at == {k \in 1..Len(tokens) :
                 /\ IsWord(tokens[k])
                 /\ DefinitionEnd(tokens, NameAfterType(tokens, k), ".cpp") # 0}
        ks == Ascending(at)
    IN  NonOverlapping(List([i \in 1..Len(ks) |->
            Match(2 * ks[i], DefinitionEnd(tokens, NameAfterType(tokens, ks[i]), ".cpp"),
                  tokens[NameAfterType(tokens, ks[i])])]), 0)

\* The records a parser makes of its matches: functions and classes carry
\* the line of the match, content[:match.start()].count('\n') + 1, which is
\* 1 in a text of one line.
Definitions(matches, file_path, language) ==
    List([i \in 1..Len(matches) |->
            [name |-> matches[i].name, file |-> file_path, line |-> 1,
             language |-> language]])

ImportRecords(matches, file_path, language) ==
    List([i \in 1..Len(matches) |->
            [module |-> matches[i].name, file |-> file_path, language |-> language]])

Parsed(functions, classes, imports) ==
    [functions |-> functions, classes |-> classes, imports |-> imports]

\* _parse_javascript_typescript.  r"require\(['\"]([^'\"]+)['\"]\)" leaves
\* no room for a space where a token text has one, and matches nothing.
parse_javascript_typescript(tokens, file_path) ==
    Parsed(Definitions(KeywordNameMatches(tokens, "function", TRUE)
                           \o DeclaredArrowMatches(tokens, "const")
                           \o DeclaredArrowMatches(tokens, "let")
                           \o PropertyArrowMatches(tokens), file_path, "javascript"),
           Definitions(KeywordNameMatches(tokens, "class", FALSE), file_path, "javascript"),
           ImportRecords(ImportFromMatches(tokens), file_path, "javascript"))

\* _parse_java.  r"import\s+([\w.]+);" matches nothing in a token text, a
\* space standing before its ";".
parse_java(tokens, file_path) ==
    Parsed(Definitions(MethodMatches(tokens), file_path, "java"),
           Definitions(KeywordNameMatches(tokens, "class", FALSE), file_path, "java"),
           <<>>)

\* _parse_swift
parse_swift(tokens, file_path) ==
    Parsed(Definitions(KeywordNameMatches(tokens, "func", TRUE), file_path, "swift"),
           Definitions(KeywordNameMatches(tokens, "class", FALSE)
                           \o KeywordNameMatches(tokens, "struct", FALSE)
                           \o KeywordNameMatches(tokens, "enum", FALSE), file_path, "swift"),
           ImportRecords(SwiftImportMatches(tokens), file_path, "swift"))

\* the names _parse_cpp does not take for functions
cpp_keywords == {"if", "while", "for", "switch"}

\* _parse_cpp
parse_cpp(tokens, file_path) ==
    LET kept(m) == m.name \notin cpp_keywords
    IN  Parsed(Definitions(SelectSeq(CppFunctionMatches(tokens), kept), file_path, "cpp"),
               Definitions(KeywordNameMatches(tokens, "class", FALSE), file_path, "cpp"),
               ImportRecords(IncludeMatches(tokens), file_path, "cpp"))

\* generate_repo_ast, lines 235-289: the walk of a Python tree
RECURSIVE WalkTree(_, _, _)
WalkTree(info, relative_path, tree) ==
    IF tree = <<>> THEN info
    ELSE LET node == Head(tree)
             module(alias) == IF node.type = "ImportFrom" /\ node.name # None
                              THEN node.name \o "." \o alias ELSE alias
             next ==
                 CASE node.type \in {"FunctionDef", "AsyncFunctionDef"} ->
                        [info EXCEPT !.functions = Append(@,
                            [name |-> node.name, file |-> relative_path,
                             line |-> node.lineno,
                             is_async |-> node.type = "AsyncFunctionDef",
                             language |-> "python"])]
                   [] node.type = "ClassDef" ->
                        [info EXCEPT !.classes = Append(@,
                            [name |-> node.name, file |-> relative_path,
                             line |-> node.lineno, language |-> "python"])]
                   [] node.type \in {"Import", "ImportFrom"} ->
                        [info EXCEPT !.imports = @ \o List([i \in 1..Len(node.names) |->
                            [module |-> module(node.names[i]), file |-> relative_path,
                             language |-> "python"]])]
                   [] OTHER -> info
         IN  WalkTree(next, relative_path, Tail(tree))

\* The directories os.walk is kept out of (line 211).
pruned_dirs == {"venv", "__pycache__", ".git", "node_modules", ".venv", ".idea", ".vscode"}

\* The directories a relative path leads through.
RECURSIVE Directories(_)
Directories(relative_path) ==
    LET i == Find(relative_path, "/")
    IN  IF i = 0 THEN {}
        ELSE {SubSeq(relative_path, 1, i - 1)}
             \cup Directories(SubSeq(relative_path, i + 1, Len(relative_path)))

\* os.walk with dirs[:] pruned does not reach the file
IsPruned(relative_path) == Directories(relative_path) \cap pruned_dirs # {}

javascript_exts == {".js", ".jsx", ".ts", ".tsx"}
cpp_exts == {".cpp", ".cc", ".cxx", ".c", ".h", ".hpp"}

\* The type generate_repo_ast gives files of an extension it parses.
FileType(ext) ==
    CASE ext = ".py" -> "python"
      [] ext \in javascript_exts -> "javascript"
      [] ext = ".java" -> "java"
      [] ext = ".swift" -> "swift"
      [] ext \in cpp_exts -> "cpp"
      [] OTHER -> IF ext = "" THEN "unknown" ELSE SubSeq(ext, 2, Len(ext))

\* What the parser of the file's language makes of it.
ParseFile(file) ==
    LET ext == Ext(file.path)
    IN  CASE ext = ".py" -> WalkTree(Parsed(<<>>, <<>>, <<>>), file.path, file.tree)
          [] ext \in javascript_exts -> parse_javascript_typescript(file.tokens, file.path)
          [] ext = ".java" -> parse_java(file.tokens, file.path)
          [] ext = ".swift" -> parse_swift(file.tokens, file.path)
          [] OTHER -> parse_cpp(file.tokens, file.path)

EmptySummary ==
    [files |-> <<>>, functions |-> <<>>, classes |-> <<>>, imports |-> <<>>]

\* The body of generate_repo_ast's loop over the files (lines 213-386);
\* ext is os.path.splitext(file)[1].lower().
summarize_file(repo_summary, file) ==
    LET ext == Ext(file.path)
    IN  IF ext = ".py" /\ ~file.parses
        THEN [repo_summary EXCEPT !.files = (file.path :>
                 [path |-> file.path, error |-> "invalid syntax",
                  type |-> IF PathSuffix(file.path) = "" THEN "unknown"
                           ELSE SubSeq(PathSuffix(file.path), 2,
                                       Len(PathSuffix(file.path)))]) @@ @]
        ELSE IF ext = ".py" \/ ext \in javascript_exts \cup cpp_exts \cup {".java", ".swift"}
        THEN Bind(ParseFile(file), LAMBDA parsed :
               [files |-> (file.path :>
                    [path |-> file.path, functions |-> parsed.functions,
                     classes |-> parsed.classes, imports |-> parsed.imports,
                     type |-> FileType(ext)]) @@ repo_summary.files,
                functions |-> repo_summary.functions \o parsed.functions,
                classes |-> repo_summary.classes \o parsed.classes,
                imports |-> repo_summary.imports \o parsed.imports])
        ELSE [repo_summary EXCEPT !.files =
                 (file.path :> [path |-> file.path, type |-> FileType(ext)]) @@ @]

\* the loop of generate_repo_ast over the files os.walk reaches
RECURSIVE SummarizeFiles(_, _, _)
SummarizeFiles(repo_summary, files, k) ==
    IF k > Len(files) THEN repo_summary
    ELSE SummarizeFiles(IF IsPruned(files[k].path) THEN repo_summary
                        ELSE summarize_file(repo_summary, files[k]), files, k + 1)

CODE_TYPES == {"python", "javascript", "java", "cpp", "swift"}

\* generate_repo_ast, lines 388-408: the stats record
Stats(repo_summary) ==
    [total_files |->
        Cardinality({p \in DOMAIN repo_summary.files :
                        repo_summary.files[p].type \in CODE_TYPES}),
     total_functions |-> Len(repo_summary.functions),
     total_classes |-> Len(repo_summary.classes),
     total_packages |->
        Cardinality({SplitFirst(repo_summary.imports[i].module, ".") :
                        i \in 1..Len(repo_summary.imports)} \ {""})]

\* generate_repo_ast
generate_repo_ast(files) ==
    Bind(SummarizeFiles(EmptySummary, files, 1), LAMBDA repo_summary :
        [files |-> repo_summary.files, functions |-> repo_summary.functions,
         classes |-> repo_summary.classes, imports |-> repo_summary.imports,
         stats |-> Stats(repo_summary)])

-----------------------------------------------------------------------------
(* The repositories the analyzers run on. *)

\* def helper(): pass, r times over (methods of r classes, or redefinitions)
Repeated(name, r) == List([i \in 1..r |-> FunctionDef(name, <<>>)])

\* a.py: def foo(): bar()
FileA == PythonFile("a.py", <<FunctionDef("foo", <<CallName("bar")>>)>>)

\* b.py: def bar(): pass
FileB == PythonFile("b.py", <<FunctionDef("bar", <<>>)>>)

FileUniverse ==
    {   FileA, FileB,
        \* import os, b / from y.d import helper / def run(): helper(); self.bar()
        PythonFile("x/c.py",
            <<Import(<<"os", "b">>), ImportFrom("y.d", <<"helper">>),
              ImportFrom(None, <<"x">>),
              FunctionDef("run", <<CallName("helper"), CallAttribute("bar")>>)>>),
        \* class E / def helper(): helper(); poll() / async def poll(): bar()
        PythonFile("z/e.py",
            <<ClassDef("E"),
              FunctionDef("helper", <<CallName("helper"), CallName("poll")>>),
              AsyncFunctionDef("poll", <<CallName("bar")>>)>>),
        \* import b / def getcwd(): pass, in a file named like a standard module
        PythonFile("os.py", <<Import(<<"b">>), FunctionDef("getcwd", <<>>)>>),
        \* import x from './sibling' ; function main ( ) { helper ( ) ; }
        GenericFile("z/u.js",
            <<"import", "x", "from", "'./sibling'", ";",
              "function", "main", "(", ")", "{", "helper", "(", ")", ";", "}">>),
        \* public void run ( ) { if ( x ) { } else if ( y ) { } }
        GenericFile("m.java",
            <<"public", "void", "run", "(", ")", "{", "if", "(", "x", ")", "{", "}",
              "else", "if", "(", "y", ")", "{", "}", "}">>),
        \* void go ( ) { }
        GenericFile("n.cc", <<"void", "go", "(", ")", "{", "}">>),
        \* a file of a virtual environment
        PythonFile("venv/w.py", <<FunctionDef("bar", <<CallName("foo")>>)>>),
        \* a file whose name holds the name of a skipped directory
        PythonFile("venv_tools.py", <<FunctionDef("activate", <<>>)>>),
        \* a file with a syntax error
        BrokenPythonFile("bad.py")
    }
    \cup {PythonFile("y/d.py", Repeated("helper", r)) : r \in 1..MaxDup}

\* The files in the order rglob yields them; no two share a path.
Repositories ==
    UNION {{r \in [1..n -> FileUniverse] :
               \A i, j \in 1..n : i # j => r[i].path # r[j].path} : n \in 0..MaxFiles}

-----------------------------------------------------------------------------
(* CodePageRankAnalyzer.analyze_repository, file by file, and the queries  *)
(* made of the analyzer once it has returned.                              *)

NoQuery == [op |-> "none", arg |-> None]

Init ==
    /\ repo \in Repositories
    /\ pc = "pass1"
    /\ idx = 1
    /\ analyzer = NewAnalyzer
    /\ dep = NewDependencyAnalyzer
    /\ extractor = NewExtractor
    /\ query = NoQuery
    /\ result = <<>>

\* one iteration of the first loop of analyze_repository
Pass1Visit ==
    /\ pc = "pass1" /\ idx <= Len(repo)
    /\ analyzer' = pass1_file(analyzer, repo[idx])
    /\ idx' = idx + 1
    /\ UNCHANGED <<repo, extractor, pc, dep, query, result>>

\* the first loop ends, the second starts over the same files
Pass1End ==
    /\ pc = "pass1" /\ idx > Len(repo)
    /\ pc' = "pass2" /\ idx' = 1
    /\ UNCHANGED <<repo, extractor, analyzer, dep, query, result>>

\* one iteration of the second loop of analyze_repository
Pass2Visit ==
    /\ pc = "pass2" /\ idx <= Len(repo)
    /\ analyzer' = pass2_file(analyzer, repo[idx])
    /\ idx' = idx + 1
    /\ UNCHANGED <<repo, extractor, pc, dep, query, result>>

\* analyze_repository returns
Pass2End ==
    /\ pc = "pass2" /\ idx > Len(repo)
    /\ pc' = "done"
    /\ UNCHANGED <<repo, extractor, idx, analyzer, dep, query, result>>

\* a call of get_function_pagerank()
GetFunctionPagerank ==
    /\ pc = "done"
    /\ query' = [op |-> "get_function_pagerank", arg |-> None]
    /\ result' = get_function_pagerank(analyzer)
    /\ UNCHANGED <<repo, extractor, pc, idx, analyzer, dep>>

\* a call of generate_repo_ast(repo_path) on the same checkout
GenerateRepoAst ==
    /\ pc = "done"
    /\ query' = [op |-> "generate_repo_ast", arg |-> None]
    /\ result' = generate_repo_ast(repo)
    /\ UNCHANGED <<repo, extractor, pc, idx, analyzer, dep>>

\* a call of get_file_pagerank()
GetFilePagerank ==
    /\ pc = "done"
    /\ \E raises \in BOOLEAN :
          /\ query' = [op |-> "get_file_pagerank", arg |-> [raises |-> raises]]
          /\ result' = get_file_pagerank(analyzer, raises)
    /\ UNCHANGED <<repo, extractor, pc, idx, analyzer, dep>>

\* a call of get_import_pagerank()
GetImportPagerank ==
    /\ pc = "done"
    /\ \E raises \in BOOLEAN :
          /\ query' = [op |-> "get_import_pagerank", arg |-> [raises |-> raises]]
          /\ result' = get_import_pagerank(analyzer, raises)
    /\ UNCHANGED <<repo, extractor, pc, idx, analyzer, dep>>

\* a call of get_hub_files(top_n)
GetHubFiles ==
    /\ pc = "done"
    /\ \E top_n \in 1..MaxTopN :
          /\ query' = [op |-> "get_hub_files", arg |-> [top_n |-> top_n]]
          /\ result' = get_hub_files(analyzer, top_n)
    /\ UNCHANGED <<repo, extractor, pc, idx, analyzer, dep>>

\* a call of get_authority_files(top_n)
GetAuthorityFiles ==
    /\ pc = "done"
    /\ \E top_n \in 1..MaxTopN :
          /\ query' = [op |-> "get_authority_files", arg |-> [top_n |-> top_n]]
          /\ result' = get_authority_files(analyzer, top_n)
    /\ UNCHANGED <<repo, extractor, pc, idx, analyzer, dep>>

\* a call of get_central_functions(top_n)
GetCentralFunctions ==
    /\ pc = "done"
    /\ \E top_n \in 1..MaxTopN, raises \in BOOLEAN :
          /\ query' = [op |-> "get_central_functions",
                       arg |-> [top_n |-> top_n, raises |-> raises]]
          /\ result' = get_central_functions(analyzer, top_n, raises)
    /\ UNCHANGED <<repo, extractor, pc, idx, analyzer, dep>>

Next ==
    \/ Pass1Visit \/ Pass1End \/ Pass2Visit \/ Pass2End
    \/ GetFunctionPagerank \/ GetFilePagerank \/ GetImportPagerank
    \/ GetHubFiles \/ GetAuthorityFiles \/ GetCentralFunctions
    \/ GenerateRepoAst

Spec == Init /\ [][Next]_vars

-----------------------------------------------------------------------------
(* FunctionDependencyAnalyzer.analyze_repository and its two lookups. *)

InitDep ==
    /\ repo \in Repositories
    /\ pc = "dep_scan"
    /\ idx = 1
    /\ analyzer = NewAnalyzer
    /\ dep = NewDependencyAnalyzer
    /\ extractor = NewExtractor
    /\ query = NoQuery
    /\ result = <<>>

\* one iteration of the loop of analyze_repository
DepVisit ==
    /\ pc = "dep_scan" /\ idx <= Len(repo)
    /\ dep' = dep_visit_file(dep, repo[idx])
    /\ idx' = idx + 1
    /\ UNCHANGED <<repo, extractor, pc, analyzer, query, result>>

DepEnd ==
    /\ pc = "dep_scan" /\ idx > Len(repo)
    /\ pc' = "dep_done"
    /\ UNCHANGED <<repo, extractor, idx, analyzer, dep, query, result>>

\* The names a caller may ask about: the graph's own nodes, the qualified
\* names of the repository's functions, and a name no file holds.
LookupNames ==
    Range(dep.graph.nodes)
    \cup UNION {{QualifiedName(repo[i].path, repo[i].tree[j].name) :
                    j \in {k \in 1..Len(repo[i].tree) :
                             repo[i].tree[k].type = "FunctionDef"}} : i \in 1..Len(repo)}
    \cup {"missing"}

FindDependencies ==
    /\ pc = "dep_done"
    /\ \E name \in LookupNames :
        /\ query' = [op |-> "find_dependencies", arg |-> name]
        /\ result' = find_dependencies(dep, name)
    /\ UNCHANGED <<repo, extractor, pc, idx, analyzer, dep>>

FindCallers ==
    /\ pc = "dep_done"
    /\ \E name \in LookupNames :
        /\ query' = [op |-> "find_callers", arg |-> name]
        /\ result' = find_callers(dep, name)
    /\ UNCHANGED <<repo, extractor, pc, idx, analyzer, dep>>

NextDep == DepVisit \/ DepEnd \/ FindDependencies \/ FindCallers

SpecDep == InitDep /\ [][NextDep]_vars

-----------------------------------------------------------------------------
(* ImprovedCodeSnippetExtractor on a repository of text files: one call of *)
(* find_code_location or of enhance_response on a fresh extractor.         *)

TextFile(path, text) == [path |-> path, text |-> text]

AppPy == TextFile("app.py", "def f(a):\n    return a + 1\n\nx = f(1)\n")

\* the first two lines of app.py over again
UtilPy == TextFile("lib/util.py", "def f(a):\n    return a + 1\n")

\* nearly those two lines
OldPy == TextFile("old.py", "def f(a):\n    return a + 2\n")

CfgPy == TextFile("cfg.py", "alpha = 1234\nbeta = 56789\n")

\* under a directory find_code_location skips
DistPy == TextFile("dist/gen.py", "def g(b):\n    return b * 2\n")

\* its second line reads as a line number and a pipe
BitsPy == TextFile("bits.py", "m = 6\n7 | m  \n")

TextFileUniverse == {AppPy, UtilPy, OldPy, CfgPy, DistPy, BitsPy}

\* Largest number of text files in a repository.
MaxTextFiles == 2

\* The files in the order rglob yields them; no two share a path.
TextRepositories ==
    UNION {{r \in [1..n -> TextFileUniverse] :
               \A i, j \in 1..n : i # j => r[i].path # r[j].path} : n \in 0..MaxTextFiles}

\* The line ranges of at least two lines of a file.
LineRanges(file) ==
    Bind(Len(ReadLines(file.text, 1)), LAMBDA n : {r \in (1..n) \X (1..n) : r[1] < r[2]})

\* Lines s to e of a file as they stand in it, without the last line end.
CopyOf(file, s, e) ==
    Bind(Join(SubSeq(ReadLines(file.text, 1), s, e), ""), LAMBDA text :
        IF EndsWith(text, "\n") THEN SubSeq(text, 1, Len(text) - 1) ELSE text)

\* Fragments an answer may carry: of cfg.py with its last five, four and
\* three characters changed, of app.py with line numbers, and a single line.
FragmentAt80 == "alpha = 1234\nbeta = VWXYZ"
FragmentAt84 == "alpha = 1234\nbeta = 5WXYZ"
FragmentAt88 == "alpha = 1234\nbeta = 56XYZ"
NumberedFragment == "   1 | def f(a):\n   2 |     return a + 1"
OneLineFragment == "x = f(1)"

Fragments(files) ==
    UNION {{CopyOf(files[i], r[1], r[2]) : r \in LineRanges(files[i])} : i \in 1..Len(files)}
    \cup {FragmentAt80, FragmentAt84, FragmentAt88, NumberedFragment, OneLineFragment}

\* The hints a caller may pass: none, a file of the repository, or a path
\* with a leading "./".
Hints(files) == {None, "./app.py"} \cup {files[i].path : i \in 1..Len(files)}

ExtensionChoices ==
    {NoExtensions, OneExtension(".js"), ExtensionList(<<".py", ".h">>)}

\* The fenced blocks an answer may carry.
Blocks ==
    {CodeBlock("", FragmentAt80 \o "\n", ""),
     CodeBlock("Python", FragmentAt84 \o "\n", "In cfg.py the values are set:\n"),
     CodeBlock("py", FragmentAt88 \o "\n", ""),
     CodeBlock("", CopyOf(AppPy, 1, 2) \o "\n", "old.py defines f:\n"),
     CodeBlock("js", CopyOf(AppPy, 1, 2) \o "\n", ""),
     CodeBlock("", OneLineFragment \o "\n", "")}

\* The responses: of one fenced block, or of two.
Responses == {<<b>> : b \in Blocks} \cup {<<b, c>> : b, c \in Blocks}

MetadataChoices == {<<>>, <<"old.py", "cfg.py">>}

InitLocate ==
    /\ repo \in TextRepositories
    /\ pc = "ready"
    /\ idx = 1
    /\ analyzer = NewAnalyzer
    /\ dep = NewDependencyAnalyzer
    /\ extractor = NewExtractor
    /\ query = NoQuery
    /\ result = <<>>

\* a call of find_code_location(code_snippet, file_hint, file_extensions)
FindCodeLocation ==
    /\ pc = "ready"
    /\ \E code_snippet \in Fragments(repo), file_hint \in Hints(repo),
          file_extensions \in ExtensionChoices :
        \E found \in {find_code_location(extractor, repo, code_snippet, file_hint,
                                         file_extensions)} :
            /\ extractor' = found.self
            /\ result' = found.location
            /\ query' = [op  |-> "find_code_location",
                         arg |-> [code_snippet    |-> code_snippet,
                                  file_hint       |-> file_hint,
                                  file_extensions |-> file_extensions]]
    /\ pc' = "located"
    /\ UNCHANGED <<repo, idx, analyzer, dep>>

\* a call of enhance_response(response, repo_path, context_metadata)
EnhanceResponse ==
    /\ pc = "ready"
    /\ \E response \in Responses, context_metadata \in MetadataChoices :
        \E enhanced \in {enhance_response(extractor, repo, response, context_metadata)} :
            /\ query' = [op  |-> "enhance_response",
                         arg |-> [response         |-> response,
                                  context_metadata |-> context_metadata]]
            /\ result' = enhanced.response
            /\ extractor' = enhanced.self
    /\ pc' = "enhanced"
    /\ UNCHANGED <<repo, idx, analyzer, dep>>

NextLocate == FindCodeLocation \/ EnhanceResponse

SpecLocate == InitLocate /\ [][NextLocate]_vars

-----------------------------------------------------------------------------
(* One extractor kept over several calls of find_code_location, the file   *)
(* of the repository being rewritten between them.                         *)

\* The repositories of one file.
InitRelocate ==
    /\ repo \in {r \in TextRepositories : Len(r) = 1}
    /\ pc = "ready"
    /\ idx = 1
    /\ analyzer = NewAnalyzer
    /\ dep = NewDependencyAnalyzer
    /\ extractor = NewExtractor
    /\ query = NoQuery
    /\ result = <<>>

\* a file of the repository is saved with another content; the extractor
\* is not told and keeps what it has read, the caller has taken the result
\* of the call before and is ready for the next
WriteFile ==
    /\ pc \in {"ready", "located"}
    /\ \E i \in 1..Len(repo), other \in TextFileUniverse :
          /\ other.text # repo[i].text
          /\ repo' = [repo EXCEPT ![i] = TextFile(repo[i].path, other.text)]
    /\ pc' = "ready"
    /\ query' = NoQuery
    /\ result' = <<>>
    /\ UNCHANGED <<idx, analyzer, dep, extractor>>

NextRelocate == FindCodeLocation \/ WriteFile

SpecRelocate == InitRelocate /\ [][NextRelocate]_vars

-----------------------------------------------------------------------------
(* What the claims speak of. *)

\* The qualified names the SymbolIndex holds.
IndexedNames(self) ==
    UNION {Range(self.function_name_to_full[n]) : n \in DOMAIN self.function_name_to_full}

\* A sequence without its repetitions, first occurrences kept in order.
RECURSIVE Distinct(_)
Distinct(seq) ==
    IF seq = <<>> THEN <<>>
    ELSE LET init == Distinct(SubSeq(seq, 1, Len(seq) - 1))
         IN  IF seq[Len(seq)] \in Range(init) THEN init ELSE Append(init, seq[Len(seq)])

\* The file part of a qualified name.
FileOf(qualified) == SplitFirst(qualified, "::")

Min(a, b) == IF a < b THEN a ELSE b

\* The call sites Pass 2 resolves in a file: caller, called name, file.
CallSitesOf(file) ==
    IF ~IsEligible(file.path) \/ ~file.parses THEN {}
    ELSE IF Ext(file.path) = ".py"
    THEN UNION {{[caller |-> QualifiedName(file.path, file.tree[i].name),
                  name |-> file.tree[i].calls[j].id, file |-> file.path] :
                    j \in {k \in 1..Len(file.tree[i].calls) :
                             file.tree[i].calls[k].kind = "Name"}} :
                 i \in {k \in 1..Len(file.tree) : file.tree[k].type = "FunctionDef"}}
    ELSE LET defs == SortByPos(DefinedFuncs(function_matches(Ext(file.path), file.tokens)))
             calls == CallMatches(file.tokens)
         IN  {[caller |-> QualifiedName(file.path, caller_of(defs, calls[k].start)),
               name |-> calls[k].name, file |-> file.path] :
                 k \in {k \in 1..Len(calls) :
                          /\ calls[k].name \notin control_keywords
                          /\ caller_of(defs, calls[k].start) # None}}

CallSites == UNION {CallSitesOf(repo[i]) : i \in 1..Len(repo)}

\* The modules a file imports, as Pass 2 reads them.
ImportsOf(file) ==
    IF ~IsEligible(file.path) \/ ~file.parses THEN {}
    ELSE IF Ext(file.path) = ".py"
    THEN UNION {Range(file.tree[i].names) :
                  i \in {k \in 1..Len(file.tree) : file.tree[k].type = "Import"}}
         \cup {file.tree[i].name :
                  i \in {k \in 1..Len(file.tree) :
                           file.tree[k].type = "ImportFrom" /\ file.tree[k].name # None}}
    ELSE {m.name : m \in Range(import_matches(Ext(file.path), file.tokens))}

\* The two-file repository of the end-to-end scenario, in either rglob order.
IsTwoFileRepo == Len(repo) = 2 /\ Range(repo) = {FileA, FileB}

\* Two fractions are the same number.
FracEq(a, b) == a.num * b.den = b.num * a.den

-----------------------------------------------------------------------------
(* The claims. *)

\* C1: every endpoint (caller and callee) of every CallGraph edge is a
\* qualified name that Pass 1 placed in the SymbolIndex.
C1_EdgeEndpointsIndexed ==
    \A e \in Range(analyzer.function_graph.edges) :
        e[1] \in IndexedNames(analyzer) /\ e[2] \in IndexedNames(analyzer)

\* C1 witness: the analysis has ended with an edge between functions of two
\* files and an edge of low confidence.
C1_Witness ==
    /\ pc = "done"
    /\ \E e \in Range(analyzer.function_graph.edges) : FileOf(e[1]) # FileOf(e[2])
    /\ DOMAIN analyzer.function_graph.weight # {}

\* C2, as claimed: a call whose name has several candidates, none in the
\* caller's file and none in its directory, has an edge of weight 0.3 to each
\* of the first three candidates in collection order, so to each of two files
\* that define the name.
C2_AmbiguousCallLinksFirstThree ==
    pc = "done" =>
        \A cs \in CallSites :
            LET index == analyzer.function_name_to_full
                G == analyzer.function_graph
                cands == IF cs.name \in DOMAIN index THEN Distinct(index[cs.name]) ELSE <<>>
            IN  (/\ Len(cands) >= 2
                 /\ \A i \in 1..Len(cands) :
                       /\ FileOf(cands[i]) # cs.file
                       /\ PathParent(FileOf(cands[i])) # PathParent(cs.file))
                => \A i \in 1..Min(TopCandidates, Len(cands)) :
                       /\ <<cs.caller, cands[i]>> \in Range(G.edges)
                       /\ EdgeWeight(G, <<cs.caller, cands[i]>>) = LowConfidenceWeight

\* C3, as claimed: every edge (u, v) of FileGraph is an edge (u, v) of
\* ImportGraph.
C3_FileEdgeIsImportEdge ==
    \A e \in Range(analyzer.file_graph.edges) : e \in Range(analyzer.import_graph.edges)

\* C3, amended: every edge (u, v) of FileGraph has an edge (u, m) of
\* ImportGraph from the same file u whose raw target m is v or names the file
\* v: v = m + ".py", or v = m with its dots turned into slashes + ".py".
C3_FileEdgeHasImportEdge ==
    \A e \in Range(analyzer.file_graph.edges) :
        \E i \in Range(analyzer.import_graph.edges) :
            /\ i[1] = e[1]
            /\ \/ e[2] = i[2]
               \/ e[2] = i[2] \o ".py"
               \/ e[2] = ReplaceChar(i[2], ".", "/") \o ".py"

\* C3 witness: FileGraph holds an edge to a file that ImportGraph knows by
\* its module name only, and an edge to a relative module as written.
C3_Witness ==
    /\ \E e \in Range(analyzer.file_graph.edges) :
          e \notin Range(analyzer.import_graph.edges)
    /\ \E e \in Range(analyzer.file_graph.edges) :
          e \in Range(analyzer.import_graph.edges)

\* C4, as claimed: an import whose root is in the external-library stoplist
\* is an ImportGraph edge to the raw target and gives the importing file no
\* FileGraph edge, whatever files the repository holds.
C4_ExternalImportNoFileEdge ==
    pc = "done" =>
        \A k \in 1..Len(repo) : \A m \in ImportsOf(repo[k]) :
            SplitFirst(m, ".") \in external_libs =>
                /\ <<repo[k].path, m>> \in Range(analyzer.import_graph.edges)
                /\ \A e \in Range(analyzer.file_graph.edges) :
                      e[1] = repo[k].path => e[2] \notin {m} \cup Range(possible_files(m))

\* C5, as claimed: on the two-file repository find_dependencies("a.py::foo")
\* returns exactly ["b.py::bar"].
C5_DependenciesOfFoo ==
    (IsTwoFileRepo /\ query = [op |-> "find_dependencies", arg |-> "a.py::foo"])
        => result = <<"b.py::bar">>

\* C6: on the two-file repository the CallGraph has the single edge
\* a.py::foo -> b.py::bar, and get_function_pagerank lists b.py::bar first,
\* a.py::foo second, the first score strictly higher.
C6_BarRanksAboveFoo ==
    (IsTwoFileRepo /\ query.op = "get_function_pagerank") =>
        /\ analyzer.function_graph.edges = << <<"a.py::foo", "b.py::bar">> >>
        /\ Len(result) = 2
        /\ result[1][1] = "b.py::bar" /\ result[2][1] = "a.py::foo"
        /\ result[1][2].den = result[2][2].den
        /\ result[1][2].num > result[2][2].num

\* C6 witness: the ranking was asked of the analyzed two-file repository.
C6_Witness == IsTwoFileRepo /\ query.op = "get_function_pagerank" /\ result # <<>>

\* C7: on a CallGraph of N >= 1 nodes and no edge, get_function_pagerank
\* returns N entries, one per node, each of score 1/N; the scores sum to 1.
C7_EdgelessUniform ==
    LET G == analyzer.function_graph
        N == Len(G.nodes)
    IN  (query.op = "get_function_pagerank" /\ N >= 1 /\ Len(G.edges) = 0) =>
            /\ Len(result) = N
            /\ \A i \in 1..N : result[i][1] = G.nodes[i] /\ FracEq(result[i][2], Score(1, N))
            /\ \A i \in 1..N : result[i][2].den = N
            /\ SumOver([i \in 1..N |-> result[i][2].num], 1..N) = N

\* C7 witness: the ranking of an edgeless CallGraph of three nodes or more.
C7_Witness ==
    /\ query.op = "get_function_pagerank"
    /\ Len(analyzer.function_graph.nodes) >= 3
    /\ Len(analyzer.function_graph.edges) = 0
    /\ Len(result) = Len(analyzer.function_graph.nodes)

-----------------------------------------------------------------------------
(* What the claims on the Fragment Locator speak of. *)

\* The last call was find_code_location.
IsLocateCall == query.op = "find_code_location"

\* The lines of a file, right-trimmed, from line i over n lines.
WindowLines(file, i, n) == RStripAll(SubSeq(ReadLines(file.text, 1), i, i + n - 1))

\* The start lines of the windows of n lines of a file.
WindowStarts(file, n) == 1..(Len(ReadLines(file.text, 1)) - n + 1)

\* A call with this hint and these extensions reads the file: it is the
\* hint file, or rglob yields it for an extension and no skipped name is in
\* its path.
IsSearched(file, file_hint, file_extensions) ==
    \/ file_hint \notin {None, ""} /\ file.path = HintPath(file_hint)
    \/ /\ ~IsLocateSkipped(file.path)
       /\ \E ext \in Range(Extensions(file_extensions)) : EndsWith(file.path, ext)

\* The text has line-number decoration: a match of \s*\d+\s*\| at the start
\* of a line.
HasLineNumbers(code) ==
    \E i \in 1..Len(code) :
        (i = 1 \/ Char(code, i - 1) = "\n") /\ LineNumberEnd(code, i) > 0

\* The hint names a file other than this one that has a window within 0.80
\* of the lines.
HintElsewhere(file, file_hint, lines) ==
    /\ file_hint \notin {None, ""}
    /\ file_hint # file.path
    /\ \E g \in Range(repo) :
        /\ g.path = file_hint
        /\ \E w \in WindowStarts(g, Len(lines)) :
              LET similarity == calculate_similarity(lines, WindowLines(g, w, Len(lines)))
              IN  similarity.num * 100 >= 80 * similarity.den

\* A window with these lines is searched before line s of the i-th file.
SameLinesEarlier(i, s, lines, file_hint, file_extensions) ==
    LET search_order == SearchOrder(repo, file_hint, file_extensions)
        at(j) == CHOOSE k \in 1..Len(search_order) : search_order[k] = j
    IN  \E j \in Range(search_order) : \E w \in WindowStarts(repo[j], Len(lines)) :
            /\ at(j) < at(i) \/ (j = i /\ w < s)
            /\ WindowLines(repo[j], w, Len(lines)) = lines

\* The fragment of the last locate call is lines r[1] to r[2] of the i-th
\* file as they stand.
IsCopy(i, r) == query.arg.code_snippet = CopyOf(repo[i], r[1], r[2])

\* The last locate call returned the i-th file, lines r[1] to r[2], with
\* confidence 1.0.
ReturnedExactly(i, r) ==
    /\ result # <<>>
    /\ result[1].file = repo[i].path
    /\ result[1].start_line = r[1]
    /\ result[1].end_line = r[2]
    /\ result[1].confidence.num = result[1].confidence.den

\* The copy is one the locator can find again: the call reads the file, the
\* first and last lines copied are not blank, the fragment has no
\* line-number decoration, and the hint does not lead elsewhere.
IsFindableCopy(i, r) ==
    /\ IsCopy(i, r)
    /\ IsSearched(repo[i], query.arg.file_hint, query.arg.file_extensions)
    /\ ~IsBlank(ReadLines(repo[i].text, 1)[r[1]])
    /\ ~IsBlank(ReadLines(repo[i].text, 1)[r[2]])
    /\ ~HasLineNumbers(query.arg.code_snippet)
    /\ ~HintElsewhere(repo[i], query.arg.file_hint, WindowLines(repo[i], r[1], r[2] - r[1] + 1))

\* C8: locating a fragment of at least two lines copied verbatim from lines
\* [s, e] of a repository file f returns file f, start line s, end line e
\* and confidence 1.0, whatever the file, the range, the rest of the
\* repository and the file hint.
C8_VerbatimCopyLocatedExactly ==
    IsLocateCall =>
        \A i \in 1..Len(repo) : \A r \in LineRanges(repo[i]) :
            IsCopy(i, r) => ReturnedExactly(i, r)

\* C8, amended: when the call reads f, lines s and e are not blank, the
\* fragment has no line-number decoration and the hint names no other file
\* with a window within 0.80 of it, the call returns confidence 1.0 and
\* e - s + 1 lines whose right-trimmed text is the fragment's; these are
\* lines [s, e] of f when no window searched earlier has the same text.
C8_FindableCopyLocated ==
    IsLocateCall =>
        \A i \in 1..Len(repo) : \A r \in LineRanges(repo[i]) :
            IsFindableCopy(i, r) =>
                LET lines == WindowLines(repo[i], r[1], r[2] - r[1] + 1)
                IN  /\ result # <<>>
                    /\ result[1].confidence.num = result[1].confidence.den
                    /\ result[1].end_line - result[1].start_line + 1 = Len(lines)
                    /\ \E g \in Range(repo) :
                          /\ g.path = result[1].file
                          /\ WindowLines(g, result[1].start_line, Len(lines)) = lines
                    /\ ~SameLinesEarlier(i, r[1], lines, query.arg.file_hint,
                                         query.arg.file_extensions)
                          => ReturnedExactly(i, r)

\* A copy of a file's lines is located at its place although another file,
\* searched later, holds the same lines and a hint names the copied file.
C8_Witness ==
    /\ IsLocateCall
    /\ query.arg.file_hint \notin {None, ""}
    /\ \E i \in 1..Len(repo) : \E r \in LineRanges(repo[i]) :
        /\ IsFindableCopy(i, r)
        /\ ReturnedExactly(i, r)
        /\ \E j \in 1..Len(repo) :
              j # i /\ \E w \in WindowStarts(repo[j], r[2] - r[1] + 1) :
                  WindowLines(repo[j], w, r[2] - r[1] + 1)
                      = WindowLines(repo[i], r[1], r[2] - r[1] + 1)

\* The last call was enhance_response.
IsEnhanceCall == query.op = "enhance_response"

\* What find_code_location returns for the k-th block of the response of
\* the last enhance_response call.
LocatedForBlock(k) ==
    LET block == query.arg.response[k]
    IN  find_code_location(NewExtractor, repo, block.code,
                           FileHint(query.arg.context_metadata, block.snippet_context),
                           BlockExtensions(block.lang)).location

\* The confidence lies in [0.80, 0.85).
IsBetweenThresholds(confidence) ==
    /\ confidence.num * 100 >= 80 * confidence.den
    /\ confidence.num * 100 < 85 * confidence.den

\* C9: a block whose fragment locate returns with confidence in
\* [0.80, 0.85) is left without a citation by enhance_response, and every
\* citation enhance_response adds is of a match that locate returns with
\* confidence at least 0.85.
C9_CitationAtOrAbove85Only ==
    IsEnhanceCall =>
        \A k \in 1..Len(result) :
            LET location == LocatedForBlock(k)
            IN  /\ (location # <<>> /\ IsBetweenThresholds(location[1].confidence))
                      => result[k].citation = <<>>
                /\ result[k].citation # <<>>
                      => /\ location # <<>>
                         /\ location[1].confidence.num * 100 >= 85 * location[1].confidence.den
                         /\ result[k].citation[1].file = location[1].file
                         /\ result[k].citation[1].confidence = location[1].confidence

\* A response of two blocks: the first is located with confidence in
\* [0.80, 0.85) and stays as it was, the second is cited.
C9_Witness ==
    /\ IsEnhanceCall
    /\ Len(result) = 2
    /\ LocatedForBlock(1) # <<>>
    /\ IsBetweenThresholds(LocatedForBlock(1)[1].confidence)
    /\ result[1].citation = <<>>
    /\ result[2].citation # <<>>

\* Some window of a file the last locate call searches is within 0.80 of
\* the normalized fragment.  The call searches no file when fewer than two
\* lines are left of the fragment.
SomeWindowAtThreshold ==
    LET lines == normalize_code(query.arg.code_snippet)
    IN  /\ Len(lines) >= 2
        /\ \E f \in Range(repo) :
            /\ IsSearched(f, query.arg.file_hint, query.arg.file_extensions)
            /\ \E w \in WindowStarts(f, Len(lines)) :
                  LET similarity == calculate_similarity(lines, WindowLines(f, w, Len(lines)))
                  IN  similarity.num * 100 >= 80 * similarity.den

IsHintFile(f) ==
    /\ query.arg.file_hint \notin {None, ""}
    /\ f.path = HintPath(query.arg.file_hint)

\* The similarity of the window of file f at line w to the fragment of the
\* last locate call.
WindowSimilarity(f, w) ==
    LET lines == normalize_code(query.arg.code_snippet)
    IN  calculate_similarity(lines, WindowLines(f, w, Len(lines)))

\* The window of file f at line w is a candidate of the last locate call.
IsCandidateWindow(f, w) ==
    /\ IsSearched(f, query.arg.file_hint, query.arg.file_extensions)
    /\ w \in WindowStarts(f, Len(normalize_code(query.arg.code_snippet)))
    /\ WindowSimilarity(f, w).num * 100 >= 80 * WindowSimilarity(f, w).den

CandidateWindows ==
    LET n == Len(normalize_code(query.arg.code_snippet))
    IN  UNION {{<<f, w>> : w \in {v \in WindowStarts(f, n) : IsCandidateWindow(f, v)}} :
                  f \in Range(repo)}

\* C11: whenever at least one candidate of a locate call comes from the
\* hint file, the returned match is a candidate of the hint file, even if a
\* candidate of another file has a higher similarity; among the candidates
\* with the same hint membership the returned one has the greatest
\* similarity.
C11_HintFileCandidateWins ==
    (IsLocateCall /\ result # <<>>) =>
        /\ (\E c \in CandidateWindows : IsHintFile(c[1]))
              => \E f \in Range(repo) : IsHintFile(f) /\ result[1].file = f.path
        /\ \A c \in CandidateWindows :
              (IsHintFile(c[1]) <=> \E f \in Range(repo) :
                                        IsHintFile(f) /\ result[1].file = f.path)
                 => WindowSimilarity(c[1], c[2]).num * result[1].confidence.den
                       <= result[1].confidence.num * WindowSimilarity(c[1], c[2]).den

\* C12: locate returns none, without searching any file, whenever fewer
\* than two lines are left of the fragment after normalization (line-number
\* decoration stripped, lines right-trimmed, leading and trailing blank
\* lines dropped).  A file that is searched is read into the file cache,
\* which is empty before the call.
C12_ShortFragmentNotSearched ==
    (IsLocateCall /\ Len(normalize_code(query.arg.code_snippet)) < 2) =>
        /\ result = <<>>
        /\ extractor.file_cache = NewExtractor.file_cache

\* A fragment of two lines as written, one of them blank, is turned down
\* although the call would have read a file that holds it.
C12_Witness ==
    /\ IsLocateCall
    /\ \E i \in 1..Len(query.arg.code_snippet) : Char(query.arg.code_snippet, i) = "\n"
    /\ Len(normalize_code(query.arg.code_snippet)) = 1
    /\ \E f \in Range(repo) :
          IsSearched(f, query.arg.file_hint, query.arg.file_extensions)
    /\ result = <<>>
    /\ extractor.file_cache = NewExtractor.file_cache

-----------------------------------------------------------------------------
(* What the claims on the Structural Extractor speak of. *)

\* The last call was generate_repo_ast, and result is its repo_summary.
IsSummary == query.op = "generate_repo_ast"

\* C13: for every valid Python file, every function record the Structural
\* Extractor emits has a line number within [1, line count of the file],
\* and its qualified name file::name occurs only once in the returned
\* repository-wide function list.
C13_FunctionRecordsInRangeAndUnique ==
    IsSummary =>
        \A i \in 1..Len(result.functions) :
            result.functions[i].language = "python" =>
                /\ \E f \in Range(repo) :
                      /\ f.path = result.functions[i].file
                      /\ result.functions[i].line \in 1..f.lines
                /\ \A j \in 1..Len(result.functions) :
                      (/\ result.functions[j].file = result.functions[i].file
                       /\ result.functions[j].name = result.functions[i].name) => j = i

\* The files of a repository that are no Python file with a syntax error.
RECURSIVE WellFormed(_)
WellFormed(files) ==
    IF files = <<>> THEN <<>>
    ELSE (IF Ext(Head(files).path) = ".py" /\ ~Head(files).parses
          THEN <<>> ELSE <<Head(files)>>) \o WellFormed(Tail(files))

\* analyze_repository on the files, from a new analyzer: the first loop
\* over all of them, then the second.
RECURSIVE RunPass(_, _, _)
RunPass(self, files, pass) ==
    IF files = <<>> THEN self
    ELSE RunPass(IF pass = 1 THEN pass1_file(self, Head(files))
                 ELSE pass2_file(self, Head(files)), Tail(files), pass)

Analyzed(files) == RunPass(RunPass(NewAnalyzer, files, 1), files, 2)

\* A Python file with a syntax error that os.walk reaches.
IsMalformed(f) == Ext(f.path) = ".py" /\ ~f.parses /\ ~IsPruned(f.path)

\* The Extractor marks each malformed file with an error and takes
\* nothing from it; all else in the summary is what it is for the
\* repository without the malformed files; and the analyzer that has
\* returned is the one it would be without them.
C14_MalformedFileLeftOut ==
    /\ IsSummary =>
          LET without == generate_repo_ast(WellFormed(repo))
          IN  /\ \A f \in Range(repo) : IsMalformed(f) =>
                    /\ f.path \in DOMAIN result.files
                    /\ "error" \in DOMAIN result.files[f.path]
                    /\ \A r \in Range(result.functions) \cup Range(result.classes)
                                \cup Range(result.imports) : r.file # f.path
              /\ result.functions = without.functions
              /\ result.classes = without.classes
              /\ result.imports = without.imports
              /\ result.stats = without.stats
              /\ \A p \in DOMAIN without.files :
                    p \in DOMAIN result.files /\ result.files[p] = without.files[p]
    /\ pc = "done" => analyzer = Analyzed(WellFormed(repo))

\* Pass 2 takes a step of its own for a file that failed to parse in Pass 1,
\* and the failure changes nothing.
C14_MalformedFileVisitedInPass2 ==
    (pc = "pass2" /\ idx <= Len(repo) /\ ~repo[idx].parses)
        => (pc' = "pass2" /\ idx' = idx + 1 /\ analyzer' = analyzer)

\* C14: a malformed file never stops the run: a syntactically invalid
\* Python file gets an error marker in the Extractor's per-file map and
\* contributes no functions, classes or imports, every other file is still
\* processed with the same result as if the bad file were absent, and in
\* the Graph Builder a file that fails in Pass 1 is still attempted in
\* Pass 2.
C14_MalformedFileNeverStopsTheRun ==
    []C14_MalformedFileLeftOut /\ [][C14_MalformedFileVisitedInPass2]_vars

\* A malformed file comes before a file with a function; the summary marks
\* the first and holds the function of the second, which Pass 2 reached too.
C14_Witness ==
    /\ IsSummary
    /\ \E i, j \in 1..Len(repo) :
          /\ i < j
          /\ IsMalformed(repo[i])
          /\ "error" \in DOMAIN result.files[repo[i].path]
          /\ repo[j].path \in Range(analyzer.file_graph.nodes)
          /\ \E r \in Range(result.functions) :
                /\ r.file = repo[j].path
                /\ QualifiedName(r.file, r.name) \in Range(analyzer.function_graph.nodes)

\* Some directory on the way to the file is a dependency or VCS directory.
InDependencyDir(relative_path) == Directories(relative_path) \cap skip_dirs # {}

\* C17: a file is skipped by the Structural Extractor and by both Graph
\* Builder passes exactly when some directory segment of its path is a
\* dependency/VCS directory (venv, __pycache__, .git, node_modules); every
\* other file with an eligible extension is processed, including files
\* whose name or path merely contains one of those names as a substring.
\* A Python file that parses is processed by Pass 1 when its functions are
\* CallGraph nodes, by Pass 2 when it is a FileGraph node, and by the
\* Extractor when the per-file map has it.
C17_SkippedIffInDependencyDir ==
    \A f \in Range(repo) : (Ext(f.path) = ".py" /\ f.parses) =>
        /\ pc = "done" =>
              /\ ~InDependencyDir(f.path) <=> f.path \in Range(analyzer.file_graph.nodes)
              /\ \A n \in Range(f.tree) : n.type = "FunctionDef" =>
                    (~InDependencyDir(f.path) <=>
                        QualifiedName(f.path, n.name) \in Range(analyzer.function_graph.nodes))
        /\ IsSummary => (~InDependencyDir(f.path) <=> f.path \in DOMAIN result.files)

\* C18: for every repository, the stats record returned by
\* generate_repo_ast has the entries total_files, total_functions,
\* total_classes and total_imports, which the test scripts read after each
\* analysis.
C18_StatsHasTheEntriesRead ==
    IsSummary =>
        {"total_files", "total_functions", "total_classes", "total_imports"}
            \subseteq DOMAIN result.stats

-----------------------------------------------------------------------------
(* What the claims on the rankings speak of. *)

ranking_queries ==
    {"get_file_pagerank", "get_function_pagerank", "get_import_pagerank",
     "get_hub_files", "get_authority_files", "get_central_functions"}

\* The last call was a ranking.
IsRanking == query.op \in ranking_queries

\* The graph the last ranking was computed on.
RankedGraph ==
    IF query.op \in {"get_function_pagerank", "get_central_functions"}
    THEN analyzer.function_graph
    ELSE IF query.op = "get_import_pagerank" THEN analyzer.import_graph
    ELSE analyzer.file_graph

\* The algorithm of the last ranking raised.
RankingRaised ==
    /\ query.op \in {"get_file_pagerank", "get_import_pagerank", "get_central_functions"}
    /\ query.arg.raises

\* C15: a ranking of a graph without nodes returns the empty sequence; so
\* does get_central_functions on a CallGraph with nodes and no edge; so does
\* a ranking whose algorithm raised.
C15_RankingsDegradeToEmpty ==
    IsRanking =>
        /\ Len(RankedGraph.nodes) = 0 => result = <<>>
        /\ (query.op = "get_central_functions" /\ Len(RankedGraph.edges) = 0)
               => result = <<>>
        /\ RankingRaised => result = <<>>

\* C15 witness: the central functions were asked of a CallGraph that has
\* nodes and no edge, nothing raised, and the answer is empty.
C15_Witness ==
    /\ query.op = "get_central_functions"
    /\ ~query.arg.raises
    /\ Len(analyzer.function_graph.nodes) >= 2
    /\ Len(analyzer.function_graph.edges) = 0
    /\ result = <<>>

\* The degree get_hub_files or get_authority_files ranks by.
RankedDegree(node) ==
    IF query.op = "get_hub_files" THEN OutDegree(analyzer.file_graph, node)
    ELSE InDegree(analyzer.file_graph, node)

\* The place of a node in the iteration order of the FileGraph.
FileGraphPlace(node) ==
    CHOOSE i \in 1..Len(analyzer.file_graph.nodes) : analyzer.file_graph.nodes[i] = node

\* C16: get_hub_files(n) and get_authority_files(n) return at most n pairs
\* (node, degree), the degree being the node's out-degree (hubs) or
\* in-degree (authorities) in the FileGraph and above 0, in non-increasing
\* order of degree, equal degrees in the iteration order of the graph; no
\* node that passes the file-path filter and is left out has a degree above
\* that of a returned node.
C16_TopByDegreeStable ==
    query.op \in {"get_hub_files", "get_authority_files"} =>
        LET nodes == Range(analyzer.file_graph.nodes)
            returned == {result[i][1] : i \in 1..Len(result)}
        IN  /\ Len(result) <= query.arg.top_n
            /\ Cardinality(returned) = Len(result)
            /\ \A i \in 1..Len(result) :
                  /\ result[i][1] \in nodes
                  /\ result[i][2] = RankedDegree(result[i][1])
                  /\ result[i][2] > 0
            /\ \A i, j \in 1..Len(result) :
                  i < j => /\ result[i][2] >= result[j][2]
                           /\ result[i][2] = result[j][2]
                                 => FileGraphPlace(result[i][1]) < FileGraphPlace(result[j][1])
            /\ \A v \in nodes \ returned :
                  IsFilePath(v) => \A i \in 1..Len(result) : RankedDegree(v) <= result[i][2]

\* C16 witness: the ranking was cut at top_n, and a node that passes the
\* filter, has a positive degree and stands before a returned node in the
\* graph was left out for its lower degree.
C16_Witness ==
    /\ query.op \in {"get_hub_files", "get_authority_files"}
    /\ Len(result) = query.arg.top_n
    /\ \E v \in Range(analyzer.file_graph.nodes) :
          /\ v \notin {result[i][1] : i \in 1..Len(result)}
          /\ IsFilePath(v)
          /\ RankedDegree(v) > 0
          /\ \E i \in 1..Len(result) :
                /\ RankedDegree(v) < result[i][2]
                /\ FileGraphPlace(v) < FileGraphPlace(result[i][1])

-----------------------------------------------------------------------------
(* What the claim on the two passes speaks of. *)

\* The edges of the three graphs together.
AllEdges ==
    Range(analyzer.file_graph.edges) \cup Range(analyzer.function_graph.edges)
    \cup Range(analyzer.import_graph.edges)

\* The qualified names Pass 1 takes from a file: those of the FunctionDef
\* nodes of a Python tree, those of the pattern matches of another text.
CollectedFrom(file) ==
    IF ~IsEligible(file.path) THEN {}
    ELSE IF Ext(file.path) = ".py"
    THEN IF file.parses
         THEN {<<file.tree[k].name, QualifiedName(file.path, file.tree[k].name)>> :
                  k \in {j \in 1..Len(file.tree) : file.tree[j].type = "FunctionDef"}}
         ELSE {}
    ELSE LET ms == function_matches(Ext(file.path), file.tokens)
         IN  {<<ms[k].name, QualifiedName(file.path, ms[k].name)>> :
                 k \in {j \in 1..Len(ms) : ms[j].name \notin control_keywords}}

\* The index holds what Pass 1 takes from every file of the repository.
IndexComplete ==
    /\ \A i \in 1..Len(repo) : \A d \in CollectedFrom(repo[i]) :
          /\ d[1] \in DOMAIN analyzer.function_name_to_full
          /\ d[2] \in Range(analyzer.function_name_to_full[d[1]])
    /\ analyzer.function_name_to_full = RunPass(NewAnalyzer, repo, 1).function_name_to_full

\* While the first loop runs there is no edge in any graph; from the start
\* of the second loop on the index is complete.
C19_NoEdgeBeforeIndexComplete ==
    /\ pc = "pass1" => AllEdges = {}
    /\ pc \in {"pass2", "done"} => IndexComplete

\* A step of the second loop, or a query, leaves the index as it is.
C19_IndexFrozenInPass2 ==
    pc \in {"pass2", "done"} =>
        analyzer'.function_name_to_full = analyzer.function_name_to_full

-----------------------------------------------------------------------------
(* What the claim on the resolution of a unique name speaks of. *)

\* C20: a call whose name is not defined in the caller's file and is the
\* local name of exactly one qualified name of the SymbolIndex has an edge
\* to that qualified name, of full confidence (no weight 0.3), however many
\* times the definition was collected.
C20_UniqueNameFullConfidence ==
    pc = "done" =>
        \A cs \in CallSites :
            LET index == analyzer.function_name_to_full
                G == analyzer.function_graph
                cands == IF cs.name \in DOMAIN index THEN Range(index[cs.name]) ELSE {}
            IN  (/\ QualifiedName(cs.file, cs.name) \notin IndexedNames(analyzer)
                 /\ Cardinality(cands) = 1)
                => \A target \in cands :
                       /\ <<cs.caller, target>> \in Range(G.edges)
                       /\ <<cs.caller, target>> \notin DOMAIN G.weight

-----------------------------------------------------------------------------
(* What the claims on the resolution of a call speak of. *)

\* The local names of the functions a file defines: those of its def and
\* async def statements (Python), those its function patterns match
\* outside the control keywords (other languages).
DefinedNames(file) ==
    IF Ext(file.path) = ".py"
    THEN {file.tree[k].name :
             k \in {j \in 1..Len(file.tree) :
                      file.tree[j].type \in {"FunctionDef", "AsyncFunctionDef"}}}
    ELSE {m.name : m \in Range(DefinedFuncs(function_matches(Ext(file.path), file.tokens)))}

\* The qualified names of the SymbolIndex with a local name.
Candidates(name) ==
    IF name \in DOMAIN analyzer.function_name_to_full
    THEN Range(analyzer.function_name_to_full[name]) ELSE {}

\* C21: a call of a name that the caller's file defines has an edge to the
\* qualified name of that name in the caller's file, of full confidence, and
\* the caller has no edge to another candidate of that name, however many
\* other files define it.
C21_SameFileFirst ==
    pc = "done" =>
        \A i \in 1..Len(repo) : \A cs \in CallSitesOf(repo[i]) :
            cs.name \in DefinedNames(repo[i]) =>
                LET G == analyzer.function_graph
                    target == QualifiedName(cs.file, cs.name)
                IN  /\ <<cs.caller, target>> \in Range(G.edges)
                    /\ <<cs.caller, target>> \notin DOMAIN G.weight
                    /\ \A e \in Range(G.edges) :
                          (e[1] = cs.caller /\ e[2] # target)
                              => e[2] \notin Candidates(cs.name)

\* C22: a call of a name with several candidates, none in the caller's file
\* and one at least in the caller's directory, has exactly one edge to a
\* candidate, that candidate lies in the caller's directory, and the edge is
\* of full confidence (no weight 0.3).
C22_DirectoryAffinity ==
    pc = "done" =>
        \A i \in 1..Len(repo) : \A cs \in CallSitesOf(repo[i]) :
            LET G == analyzer.function_graph
                cands == Candidates(cs.name)
                nearby == {c \in cands : PathParent(FileOf(c)) = PathParent(cs.file)}
                linked == {e \in Range(G.edges) : e[1] = cs.caller /\ e[2] \in cands}
            IN  (/\ Cardinality(cands) >= 2
                 /\ \A c \in cands : FileOf(c) # cs.file
                 /\ nearby # {})
                => /\ Cardinality(linked) = 1
                   /\ \A e \in linked : e[2] \in nearby /\ e \notin DOMAIN G.weight

\* C22 witness: the analysis has ended with a call linked to the candidate
\* of the caller's directory although a candidate of another directory was
\* collected before it.
C22_Witness ==
    /\ pc = "done"
    /\ \E i \in 1..Len(repo) : \E cs \in CallSitesOf(repo[i]) :
          LET cands == analyzer.function_name_to_full[cs.name]
          IN  /\ cs.name \in DOMAIN analyzer.function_name_to_full
              /\ Len(cands) >= 2
              /\ \A k \in 1..Len(cands) : FileOf(cands[k]) # cs.file
              /\ PathParent(FileOf(cands[1])) # PathParent(cs.file)
              /\ \E k \in 2..Len(cands) :
                    /\ PathParent(FileOf(cands[k])) = PathParent(cs.file)
                    /\ <<cs.caller, cands[k]>> \in Range(analyzer.function_graph.edges)

\* The calls of a tree's functions without the calls of plain names that
\* have no candidate in the index.
WithoutUnknownCalls(file, index) ==
    LET known(call) == call.kind # "Name" \/ call.id \in DOMAIN index
    IN  IF Ext(file.path) # ".py" THEN file
        ELSE [file EXCEPT !.tree =
                 [k \in 1..Len(file.tree) |->
                     [file.tree[k] EXCEPT !.calls = SelectSeq(@, known)]]]

\* C23: a call whose name has no candidate in the SymbolIndex changes
\* nothing: adding it leaves the CallGraph, the FileGraph, the ImportGraph
\* and the SymbolIndex as they are, and the analysis ends as it does for
\* the repository without such calls.
C23_UnknownCallDropped ==
    /\ pc \in {"pass2", "done"} =>
          \A i \in 1..Len(repo) : \A cs \in CallSitesOf(repo[i]) :
              Candidates(cs.name) = {} =>
                  add_function_call_edge(analyzer, cs.caller, cs.name, cs.file) = analyzer
    /\ pc = "done" =>
          analyzer = Analyzed([i \in 1..Len(repo) |->
                                 WithoutUnknownCalls(repo[i], analyzer.function_name_to_full)])

\* C23 witness: the analysis has ended, a function with a call edge also
\* calls a name that has no candidate.
C23_Witness ==
    /\ pc = "done"
    /\ \E i \in 1..Len(repo) : \E cs \in CallSitesOf(repo[i]) :
          /\ Candidates(cs.name) = {}
          /\ \E e \in Range(analyzer.function_graph.edges) : e[1] = cs.caller
          /\ WithoutUnknownCalls(repo[i], analyzer.function_name_to_full) # repo[i]

-----------------------------------------------------------------------------
(* What the claim on the control keywords speaks of. *)

\* C24: no function record of a language other than Python has the name of
\* a control keyword (if, while, for, switch, catch, return): none in the
\* summary of generate_repo_ast, and none among the names the collection
\* pass of the analyzer puts in the SymbolIndex and the CallGraph.
C24_NoControlKeywordFunction ==
    /\ IsSummary =>
          \A k \in 1..Len(result.functions) :
              result.functions[k].language # "python"
                  => result.functions[k].name \notin control_keywords
    /\ \A q \in IndexedNames(analyzer) \cup Range(analyzer.function_graph.nodes) :
          Ext(FileOf(q)) # ".py" =>
              \A kw \in control_keywords : q # QualifiedName(FileOf(q), kw)

-----------------------------------------------------------------------------
(* What the claim on the origin of the call edges speaks of. *)

\* The local names of the functions of a file whose bodies hold no call.
\* Python: every def of the name has an empty list of calls.  Other
\* languages: no match of the call pattern outside the control keywords
\* and outside the text of a definition (its name before its parenthesis)
\* belongs to the function.
CallFreeNames(file) ==
    IF Ext(file.path) = ".py"
    THEN {n \in {file.tree[k].name :
                    k \in {j \in 1..Len(file.tree) : file.tree[j].type = "FunctionDef"}} :
             \A k \in 1..Len(file.tree) :
                 (file.tree[k].type = "FunctionDef" /\ file.tree[k].name = n)
                     => file.tree[k].calls = <<>>}
    ELSE LET defs == SortByPos(DefinedFuncs(function_matches(Ext(file.path), file.tokens)))
             calls == CallMatches(file.tokens)
             InDefinition(c) ==
                 \E d \in Range(function_matches(Ext(file.path), file.tokens)) :
                     d.start <= c.start /\ c.last <= d.last
             body(n) == {k \in 1..Len(calls) :
                           /\ calls[k].name \notin control_keywords
                           /\ ~InDefinition(calls[k])
                           /\ caller_of(defs, calls[k].start) = n}
         IN  {n \in {d.name : d \in Range(defs)} : body(n) = {}}

\* C28: a function whose body holds no call has no outgoing CallGraph
\* edge, hence no self-loop, in a Python file and in a file analyzed with
\* regular expressions.
C28_NoEdgeWithoutCall ==
    pc = "done" =>
        \A i \in 1..Len(repo) :
            (IsEligible(repo[i].path) /\ repo[i].parses) =>
                \A n \in CallFreeNames(repo[i]) :
                    \A e \in Range(analyzer.function_graph.edges) :
                        e[1] # QualifiedName(repo[i].path, n)

-----------------------------------------------------------------------------
(* What the claim on the file cache speaks of. *)

\* The location a new extractor returns for the last call on the files as
\* they now stand.
LocationOnDisk ==
    find_code_location(NewExtractor, repo, query.arg.code_snippet, query.arg.file_hint,
                       query.arg.file_extensions).location

\* C25: the cache serves one call: the search order of a call names no file
\* twice, so a call reads each file once; and a call returns what the
\* files hold when it is made, whatever an earlier call on the same
\* extractor has read.
C25_CacheLivesForOneCall ==
    pc = "located" =>
        /\ \A j, k \in 1..Len(SearchOrder(repo, query.arg.file_hint,
                                           query.arg.file_extensions)) :
              j # k => SearchOrder(repo, query.arg.file_hint,
                                   query.arg.file_extensions)[j]
                       # SearchOrder(repo, query.arg.file_hint,
                                     query.arg.file_extensions)[k]
        /\ result = LocationOnDisk

-----------------------------------------------------------------------------
(* What the claim on the order of the second pass speaks of. *)

\* The orders a directory walk may yield the files in.
Orders(files) ==
    {order \in [1..Len(files) -> Range(files)] : Range(order) = Range(files)}

\* C26: once analyze_repository has returned, the FileGraph has the nodes
\* and the edges it has when the second pass visits the same files in any
\* other order.
C26_FileGraphOrderIndependent ==
    pc = "done" =>
        \A order \in Orders(repo) :
            LET other == RunPass(RunPass(NewAnalyzer, repo, 1), order, 2).file_graph
            IN  /\ Range(other.nodes) = Range(analyzer.file_graph.nodes)
                /\ Range(other.edges) = Range(analyzer.file_graph.edges)

-----------------------------------------------------------------------------
(* What the claim on a second run of the analysis speaks of. *)

\* Two graphs have the same nodes and the same edges.
SameGraph(G, H) ==
    /\ Range(G.nodes) = Range(H.nodes)
    /\ Range(G.edges) = Range(H.edges)

\* C27: once analyze_repository has returned, running it again on the same
\* analyzer and the same files leaves the SymbolIndex, the nodes and the
\* edges of the three graphs and the weights of the CallGraph edges as
\* they are.
C27_AnalyzeRepositoryIdempotent ==
    pc = "done" =>
        LET again == RunPass(RunPass(analyzer, repo, 1), repo, 2)
        IN  /\ again.function_name_to_full = analyzer.function_name_to_full
            /\ SameGraph(again.file_graph, analyzer.file_graph)
            /\ SameGraph(again.function_graph, analyzer.function_graph)
            /\ SameGraph(again.import_graph, analyzer.import_graph)
            /\ again.function_graph.weight = analyzer.function_graph.weight

-----------------------------------------------------------------------------
(* What the claim on the two readers of a Python file speaks of. *)

\* The function records of the summary that come from Python files.
PythonRecords ==
    {r \in Range(result.functions) : r.language = "python"}

\* C29: every function record the Structural Extractor emits for a Python
\* file, asynchronous functions included, has its CallGraph node file::name
\* and its SymbolIndex entry in the analyzer that has returned, and every
\* CallGraph node of a Python file has its function record.
C29_ExtractorAndBuilderAgree ==
    IsSummary =>
        /\ \A r \in PythonRecords :
              /\ QualifiedName(r.file, r.name) \in Range(analyzer.function_graph.nodes)
              /\ QualifiedName(r.file, r.name) \in IndexedNames(analyzer)
        /\ \A node \in Range(analyzer.function_graph.nodes) :
              Ext(FileOf(node)) = ".py" =>
                  \E r \in PythonRecords : QualifiedName(r.file, r.name) = node

-----------------------------------------------------------------------------
(* What the claim on the ranking of the files speaks of. *)

\* C30: when nx.pagerank has not raised, the result of get_file_pagerank
\* holds every FileGraph node with an extension analyze_repository
\* supports exactly once, its scores do not increase along the list, and
\* it holds no node without such an extension.
C30_FilePagerankCoversAnalyzedFiles ==
    (query.op = "get_file_pagerank" /\ ~query.arg.raises) =>
        /\ \A node \in Range(analyzer.file_graph.nodes) :
              Ext(node) \in supported_exts =>
                  Cardinality({i \in 1..Len(result) : result[i][1] = node}) = 1
        /\ \A i, j \in 1..Len(result) :
              i < j => /\ result[i][2].den = result[j][2].den
                       /\ result[i][2].num >= result[j][2].num
        /\ \A i \in 1..Len(result) : Ext(result[i][1]) \in supported_exts

=============================================================================
